---- MODULE Spec2Model ----
(***************************************************************************)
(* Model of plugins/wmf-netbox.py: NetboxDeviceDataPlugin, the WMF plugin  *)
(* that derives a Junos-shaped interface tree, link descriptions, QoS      *)
(* flags and address maps for one device from Netbox records.              *)
(*                                                                         *)
(* Conventions of the model                                                *)
(*  - a Python str that the code parses (split, startswith, strip) or      *)
(*    formats into a description is a sequence of one-character strings;   *)
(*    slugs and type names that are only compared are TLA+ strings;        *)
(*  - an optional object (None or an object) is a sequence of length 0 or  *)
(*    1; None and '' of a str are both the empty sequence (the code only   *)
(*    tests their truth value); None of an int attribute is 0;             *)
(*  - a Python dict is a function, "key in dict" is key \in DOMAIN dict;   *)
(*  - a call returns [raised |-> "", value |-> v], or                      *)
(*    [raised |-> "<exception>", ...] when the Python code raises.         *)
(***************************************************************************)
EXTENDS Integers, Sequences, FiniteSets, TLC

VARIABLES
    snapshot,                \* the inventory (Netbox) content an instance reads
    instance,                \* the number of the plugin instance in use
    device_interfaces,       \* self._device_interfaces
    device_ip_addresses,     \* self._device_ip_addresses
    interface_ip_addresses,  \* self._interface_ip_addresses
    bgp_servers,             \* self._bgp_servers
    junos_interfaces,        \* self._junos_interfaces
    qos_interfaces,          \* self._qos_interfaces
    queries,                 \* queries issued to the inventory, per endpoint
    ret,                     \* the last call made on the instance and its result
    trees                    \* what _get_junos_interfaces has returned so far

vars == <<snapshot, instance, device_interfaces, device_ip_addresses, interface_ip_addresses,
          bgp_servers, junos_interfaces, qos_interfaces, queries, ret, trees>>

\* Number of results of _get_junos_interfaces recorded in `trees`.
MaxTrees == 2

\* Number of queries of one kind an instance issues to the inventory.
MaxQueries == 3

\* Number of plugin instances made over one inventory.
MaxInstances == 2

-----------------------------------------------------------------------------
\* String literals of the source and of the inventories used below.
S_dot == <<".">>
S_gr == <<"g", "r", "-">>  \* "gr-"
S_vcp == <<"v", "c", "p">>  \* "vcp"
S_fxp0_re0 == <<"f", "x", "p", "0", "-", "r", "e", "0">>  \* "fxp0-re0"
S_fxp0_re1 == <<"f", "x", "p", "0", "-", "r", "e", "1">>  \* "fxp0-re1"
S_irb == <<"i", "r", "b">>  \* "irb"
S_lo == <<"l", "o">>  \* "lo"
S_fxp == <<"f", "x", "p">>  \* "fxp"
S_em == <<"e", "m">>  \* "em"
S_vme == <<"v", "m", "e">>  \* "vme"
S_DISABLED == <<"D", "I", "S", "A", "B", "L", "E", "D">>  \* "DISABLED"
S_Core == <<"C", "o", "r", "e">>  \* "Core"
S_TransitTun == <<"T", "r", "a", "n", "s", "i", "t", "-", "t", "u", "n">>  \* "Transit-tun"
S_TransportTun == <<"T", "r", "a", "n", "s", "p", "o", "r", "t", "-", "t", "u", "n">>  \* "Transport-tun"
S_Transport == <<"T", "r", "a", "n", "s", "p", "o", "r", "t">>  \* "Transport"
S_Transit == <<"T", "r", "a", "n", "s", "i", "t">>  \* "Transit"
S_default == <<"d", "e", "f", "a", "u", "l", "t">>  \* "default"
N_xe1 == <<"x", "e", "-", "0", "/", "1">>  \* "xe-0/1"
N_xe1u0 == <<"x", "e", "-", "0", "/", "1", ".", "0">>  \* "xe-0/1.0"
N_xe1u5 == <<"x", "e", "-", "0", "/", "1", ".", "5">>  \* "xe-0/1.5"
N_em0 == <<"e", "m", "0">>  \* "em0"
N_xe2 == <<"x", "e", "-", "0", "/", "2">>  \* "xe-0/2"
N_et3 == <<"e", "t", "-", "0", "/", "3">>  \* "et-0/3"
N_xe4 == <<"x", "e", "-", "0", "/", "4">>  \* "xe-0/4"
N_ae0 == <<"a", "e", "0">>  \* "ae0"
N_ae0u1 == <<"a", "e", "0", ".", "1">>  \* "ae0.1"
N_gr0 == <<"g", "r", "-", "0", "/", "0">>  \* "gr-0/0"
N_gr0u1 == <<"g", "r", "-", "0", "/", "0", ".", "1">>  \* "gr-0/0.1"
N_vcp0 == <<"v", "c", "p", "-", "0">>  \* "vcp-0"
N_lo0 == <<"l", "o", "0">>  \* "lo0"
D_sw2 == <<"s", "w", "2">>  \* "sw2"
D_cr1 == <<"c", "r", "1">>  \* "cr1"
D_srv == <<"d", "b", "1", "0", "0", "1">>  \* "db1001"
D_member == <<"a", "s", "w", "2", "-", "m", "1">>  \* "asw2-m1"
D_domain == <<"a", "s", "w", "2", ".", "m", "g", "m", "t">>  \* "asw2.mgmt"
D_vcname == <<"a", "s", "w", "2">>  \* "asw2"
D_local == <<"c", "r", "3">>  \* "cr3"
I_ge5 == <<"g", "e", "-", "0", "/", "0", "/", "5">>  \* "ge-0/0/5"
L_C123 == <<"C", "1", "2", "3">>  \* "C123"
P_Telia == <<"T", "e", "l", "i", "a">>  \* "Telia"
C_cid == <<"I", "C", "-", "1">>  \* "IC-1"
C_desc == <<"w", "a", "v", "e">>  \* "wave"
T_uplink == <<"u", "p", "l", "i", "n", "k">>  \* "uplink"
T_trunk == <<"t", "r", "u", "n", "k">>  \* "trunk"
T_tun1 == <<"t", "u", "n", "1">>  \* "tun1"
T_tocf == <<"t", "o", " ", "c", "f">>  \* "to cf"

-----------------------------------------------------------------------------
\* Python str operations.

\* s.startswith(p)
StartsWith(s, p) == Len(s) >= Len(p) /\ SubSeq(s, 1, Len(p)) = p

\* s.startswith((p1, p2, ...))
StartsWithAny(s, ps) == \E p \in ps : StartsWith(s, p)

\* c in s, for a one-character c
HasChar(s, c) == \E i \in 1..Len(s) : s[i] = c

\* s.find(c) + 1: the position of the first c in s, 0 when there is none
FirstIndex(s, c) ==
    IF HasChar(s, c)
    THEN CHOOSE i \in 1..Len(s) : s[i] = c /\ \A j \in 1..(i - 1) : s[j] # c
    ELSE 0

\* s.split(c)[0]
SplitHead(s, c) ==
    IF FirstIndex(s, c) = 0 THEN s ELSE SubSeq(s, 1, FirstIndex(s, c) - 1)

\* s.split(c, 1)[1], for an s that holds c
SplitRest(s, c) == SubSeq(s, FirstIndex(s, c) + 1, Len(s))

RECURSIVE LStrip(_)
LStrip(s) == IF s # <<>> /\ Head(s) = " " THEN LStrip(Tail(s)) ELSE s

RECURSIVE RStrip(_)
RStrip(s) ==
    IF s # <<>> /\ s[Len(s)] = " " THEN RStrip(SubSeq(s, 1, Len(s) - 1)) ELSE s

\* s.strip()
Strip(s) == RStrip(LStrip(s))

\* The result of a call that returns v, and of one that raises exception e.
Ok(v) == [raised |-> "", value |-> v]
Raise(e) == [raised |-> e, value |-> <<>>]

\* d[k] = v on a dict d
Put(d, k, v) == [x \in DOMAIN d \cup {k} |-> IF x = k THEN v ELSE d[x]]

\* d.update(e)
Update(d, e) == [x \in DOMAIN d \cup DOMAIN e |-> IF x \in DOMAIN e THEN e[x] ELSE d[x]]

-----------------------------------------------------------------------------
\* Module constants of the source.

SWITCHES_ROLES == {"asw", "cloudsw"}
JUNIPER_LEGACY_SW == {"qfx5100-48s-6q", "ex4600-40f", "ex4300-48t"}
NO_QOS_INTS == {S_irb, S_lo, S_fxp, S_em, S_vme}
\* The core roles without the access switches.
core_link_z_dev_types_no_asw == {"cr", "mr", "msw", "pfw", "cloudsw"}

core_link_z_dev_types == {"cr", "asw", "mr", "msw", "pfw", "cloudsw"}
ignore_interfaces == {S_fxp0_re0, S_fxp0_re1}

-----------------------------------------------------------------------------
\* The inventory's answers. The plugin filters interfaces by virtual chassis
\* when the device is in one and by device otherwise; IP addresses always by
\* device.

QueryInterfaces(snap) ==
    IF snap.virtual_chassis # 0
    THEN SelectSeq(snap.interfaces, LAMBDA i : i.vc_id = snap.virtual_chassis)
    ELSE SelectSeq(snap.interfaces, LAMBDA i : i.device_id = snap.device_id)

QueryIpAddresses(snap) ==
    SelectSeq(snap.ip_addresses, LAMBDA a : a.assigned_object.device_id = snap.device_id)

\* vpn.tunnel_terminations.get(termination_id=i): the termination or None
TunnelTerminationOf(snap, i) ==
    SelectSeq(snap.tunnel_terminations, LAMBDA t : t.termination_id = i)

\* vpn.tunnel_terminations.get(tunnel_id=t, id__n=n): the other termination or None
TunnelTerminationOther(snap, t, n) ==
    SelectSeq(snap.tunnel_terminations, LAMBDA x : x.tunnel.id = t /\ x.id # n)

\* ipam.fhrp_group_assignments.filter(interface_id=i)
FhrpAssignmentsOf(snap, i) ==
    SelectSeq(snap.fhrp_group_assignments, LAMBDA f : f.interface_id = i)

-----------------------------------------------------------------------------
\* The instance's caches, threaded through the methods as one record `self`.

\* fetch_device_interfaces
fetch_device_interfaces(self, snap) ==
    IF self.device_interfaces = <<>>
    THEN LET l == QueryInterfaces(snap)
         IN [self |-> [self EXCEPT !.device_interfaces = l,
                                   !.queries.interfaces = @ + 1],
             value |-> l]
    ELSE [self |-> self, value |-> self.device_interfaces]

\* fetch_device_ip_addresses
fetch_device_ip_addresses(self, snap) ==
    IF self.device_ip_addresses = <<>>
    THEN LET l == QueryIpAddresses(snap)
         IN [self |-> [self EXCEPT !.device_ip_addresses = l,
                                   !.queries.ip_addresses = @ + 1],
             value |-> l]
    ELSE [self |-> self, value |-> self.device_ip_addresses]

-----------------------------------------------------------------------------
\* interface_description

descr_tunnel(ic) ==
    IF ic.z_dev # <<>>
    THEN S_TransportTun \o <<":", " ">> \o ic.z_dev \o <<":">> \o ic.z_int
         \o <<" ">> \o ic.tunnel[1].description
    ELSE ic.tunnel[1].description

descr_circuit(ic) ==
    LET circuit_desc == IF "circuit_desc" \in DOMAIN ic THEN ic.circuit_desc ELSE <<>>
        cct_desc == Strip(ic.circuit_id \o <<" ">> \o circuit_desc)
    IN IF ic.wmf_z_end
       THEN ic.link_type \o <<":", " ">> \o ic.z_dev \o <<":">> \o ic.z_int
            \o <<" ", "(">> \o ic.provider \o <<",", " ">> \o cct_desc
            \o <<")", " ", "{", "#">> \o ic.cable_label \o <<"}">>
       ELSE ic.link_type \o <<":", " ">> \o ic.provider \o <<" ", "(">> \o cct_desc
            \o <<")", " ", "{", "#">> \o ic.cable_label \o <<"}">>

descr_direct(ic) ==
    IF ic.link_type # <<>>
    THEN ic.link_type \o <<":", " ">> \o ic.z_dev \o <<":">> \o ic.z_int
         \o <<" ", "{", "#">> \o ic.cable_label \o <<"}">>
    ELSE IF ic.cable_label # <<>>
         THEN ic.z_dev \o <<" ", "{", "#">> \o ic.cable_label \o <<"}">>
         ELSE ic.z_dev

\* interface_description with the tunnel test moved before the test of the
\* Netbox description.
interface_description_tunnel_first(intconf) ==
    IF ~intconf.enabled THEN Ok(S_DISABLED)
    ELSE IF intconf.tunnel # <<>> THEN Ok(descr_tunnel(intconf))
    ELSE IF intconf.nb_int_desc # <<>> THEN Ok(intconf.nb_int_desc)
    ELSE IF intconf.circuit_id # <<>> THEN Ok(descr_circuit(intconf))
    ELSE IF intconf.z_dev # <<>> THEN Ok(descr_direct(intconf))
    ELSE Ok(<<>>)

interface_description(intconf) ==
    IF ~intconf.enabled THEN Ok(S_DISABLED)
    ELSE IF intconf.nb_int_desc # <<>> THEN Ok(intconf.nb_int_desc)
    ELSE IF intconf.tunnel # <<>> THEN Ok(descr_tunnel(intconf))
    ELSE IF intconf.circuit_id # <<>>
         THEN IF {"provider", "cable_label"} \subseteq DOMAIN intconf
              THEN Ok(descr_circuit(intconf))
              ELSE Raise("KeyError")
    ELSE IF intconf.z_dev # <<>>
         THEN IF "cable_label" \in DOMAIN intconf
              THEN Ok(descr_direct(intconf))
              ELSE Raise("KeyError")
    ELSE Ok(<<>>)

-----------------------------------------------------------------------------
\* _get_link_data

link_data_default ==
    [enabled |-> TRUE, nb_int_desc |-> <<>>, circuit_id |-> <<>>,
     circuit_desc |-> <<>>, link_type |-> <<>>, z_dev |-> <<>>, z_int |-> <<>>,
     wmf_z_end |-> TRUE, tunnel |-> <<>>, upstream_speed |-> 0]

\* ip_interface(address).ip: the address without its prefix length
ip_of(a) == [fam |-> a.fam, ip |-> a.ip]

\* The tunnel branch: the name starts with "gr-".
link_data_tunnel(snap, nb_interface, link_data) ==
    LET found == TunnelTerminationOf(snap, nb_interface.id)
        tunnel_termination == found[1]
        tun == [source |-> ip_of(tunnel_termination.outside_ip),
                name |-> tunnel_termination.tunnel.name,
                description |-> tunnel_termination.tunnel.description]
        z_end == TunnelTerminationOther(snap, tunnel_termination.tunnel.id,
                                        tunnel_termination.id)
    IN IF found = <<>> THEN Ok(link_data)
       ELSE IF tunnel_termination.role.value = "spoke"
       THEN Ok([link_data EXCEPT
                  !.wmf_z_end = FALSE,
                  !.link_type = S_TransitTun,
                  !.tunnel = <<Put(tun, "destination",
                                   ip_of(tunnel_termination.tunnel.hub_ip))>>])
       ELSE IF z_end = <<>>
       THEN Raise("AttributeError")  \* z_end_termination is None
       ELSE Ok([link_data EXCEPT
                  !.link_type = S_TransportTun,
                  !.tunnel = <<Put(tun, "destination", ip_of(z_end[1].outside_ip))>>,
                  !.z_dev = z_end[1].termination.device.name,
                  !.z_int = z_end[1].termination.name])

\* The loop that looks for the parent of an interface without cable: the last
\* cabled parent becomes a_int, the first described parent gives the
\* description when the interface has none.
RECURSIVE find_parent(_, _, _, _)
find_parent(nb_interface, ints, a_int, nb_int_desc) ==
    IF ints = <<>> THEN [a_int |-> a_int, nb_int_desc |-> nb_int_desc]
    ELSE LET nb_int == Head(ints)
             is_parent == /\ HasChar(nb_interface.name, ".")
                          /\ SplitHead(nb_interface.name, ".") = nb_int.name
         IN find_parent(nb_interface, Tail(ints),
                IF is_parent /\ nb_int.cable # <<>> THEN <<nb_int>> ELSE a_int,
                IF is_parent /\ nb_int_desc = <<>> /\ nb_int.description # <<>>
                THEN nb_int.description ELSE nb_int_desc)

\* z_dev of a directly connected (or patched-through) device
z_dev_direct(device) ==
    IF device.virtual_chassis # <<>>
    THEN SplitHead(device.virtual_chassis[1].domain, ".")
    ELSE device.name

\* z_dev of the device at the far end of a circuit
z_dev_circuit(device) == device.name

\* The part that sets z_dev, z_int and link_type from the far interface.
link_data_far_interface(a_int, link_data) ==
    LET z == a_int.connected_endpoints[1]
    IN [link_data EXCEPT
          !.z_dev = z_dev_direct(z.device),
          !.z_int = z.name,
          !.link_type = IF z.device.role.slug \in core_link_z_dev_types
                        THEN S_Core ELSE @]

\* link_data_circuit that takes a provider network for a managed far end.
link_data_circuit_no_provider_network(a_int, b_int, link_data) ==
    LET circuit == b_int.link_peers[1].circuit
        ld == Put([link_data EXCEPT
                    !.link_type = circuit.type.name,
                    !.circuit_id = circuit.cid,
                    !.circuit_desc = circuit.description],
                  "provider", circuit.provider.name)
    IN IF a_int.connected_endpoints = <<>>
       THEN [ld EXCEPT !.wmf_z_end = FALSE]
       ELSE [ld EXCEPT !.z_int = a_int.connected_endpoints[1].name]

\* The part that reads the circuit a cable ends on.
link_data_circuit(a_int, b_int, link_data) ==
    LET circuit == b_int.link_peers[1].circuit
        ld == Put([link_data EXCEPT
                    !.link_type = circuit.type.name,
                    !.circuit_id = circuit.cid,
                    !.circuit_desc = circuit.description,
                    !.upstream_speed = IF circuit.termination_z # <<>>
                                       THEN circuit.termination_z[1].upstream_speed
                                       ELSE @],
                  "provider", circuit.provider.name)
    IN IF \/ a_int.connected_endpoints = <<>>
          \/ a_int.connected_endpoints_type = "circuits.providernetwork"
       THEN [ld EXCEPT !.wmf_z_end = FALSE]
       ELSE [ld EXCEPT !.z_dev = z_dev_circuit(a_int.connected_endpoints[1].device),
                       !.z_int = a_int.connected_endpoints[1].name]

\* The cable branch, from the near side a_int on.
link_data_cable(a_int, link_data) ==
    LET ld1 == Put(link_data, "cable_label", a_int.cable[1].label)
        b_int == IF /\ a_int.link_peers_type = "dcim.frontport"
                    /\ a_int.link_peers[1].rear_port # <<>>
                 THEN a_int.link_peers[1].rear_port[1]
                 ELSE a_int
        far_interface == b_int.link_peers_type \in
                            {"dcim.interface", "dcim.frontport", "dcim.rearport"}
        ld2 == IF far_interface THEN link_data_far_interface(a_int, ld1) ELSE ld1
    IN IF far_interface /\ a_int.connected_endpoints = <<>>
       THEN Raise("TypeError")  \* connected_endpoints is None: None[0]
       ELSE IF b_int.link_peers_type = "circuits.circuittermination"
       THEN Ok(link_data_circuit(a_int, b_int, ld2))
       ELSE Ok(ld2)

\* _get_link_data(nb_interface): [self, raised, value]
get_link_data(self, snap, nb_interface) ==
    LET ld0 == [link_data_default EXCEPT !.nb_int_desc = nb_interface.description]
        fetched == fetch_device_interfaces(self, snap)
        found == find_parent(nb_interface, fetched.value, <<>>, ld0.nb_int_desc)
        ld1 == [ld0 EXCEPT !.nb_int_desc = found.nb_int_desc]
    IN IF ~nb_interface.enabled
       THEN [self |-> self] @@ Ok([link_data_default EXCEPT !.enabled = FALSE])
       ELSE IF StartsWith(nb_interface.name, S_gr)
       THEN [self |-> self] @@ link_data_tunnel(snap, nb_interface, ld0)
       ELSE IF nb_interface.cable # <<>>
       THEN [self |-> self] @@ link_data_cable(nb_interface, ld0)
       ELSE IF found.a_int = <<>>
       THEN [self |-> fetched.self] @@ Ok(ld1)
       ELSE [self |-> fetched.self] @@ link_data_cable(found.a_int[1], ld1)

-----------------------------------------------------------------------------
\* interface_mtu

\* The loop of interface_mtu: an enabled exact match with an MTU returns at
\* once, the last enabled parent with an MTU is kept otherwise (0: None).
RECURSIVE mtu_loop(_, _, _)
mtu_loop(interface_name, ints, mtu) ==
    IF ints = <<>> THEN mtu
    ELSE LET nb_int == Head(ints)
         IN IF nb_int.name = interface_name /\ nb_int.enabled /\ nb_int.mtu # 0
            THEN nb_int.mtu
            ELSE mtu_loop(interface_name, Tail(ints),
                    IF /\ HasChar(interface_name, ".")
                       /\ SplitHead(interface_name, ".") = nb_int.name
                       /\ nb_int.mtu # 0
                       /\ nb_int.enabled
                    THEN nb_int.mtu ELSE mtu)

interface_mtu(self, snap, interface_name) ==
    LET fetched == fetch_device_interfaces(self, snap)
    IN [self |-> fetched.self, value |-> mtu_loop(interface_name, fetched.value, 0)]

\* _get_lag_count
get_lag_count(self, snap) ==
    LET fetched == fetch_device_interfaces(self, snap)
    IN [self |-> fetched.self,
        value |-> Len(SelectSeq(fetched.value, LAMBDA i : i.type.value = "lag"))]

\* _get_vrfs: vrf name -> [ints, id]
RECURSIVE vrfs_loop(_, _)
vrfs_loop(ints, vrfs) ==
    IF ints = <<>> THEN vrfs
    ELSE LET interface == Head(ints)
             name == interface.vrf[1].name
             old == IF name \in DOMAIN vrfs THEN vrfs[name].ints ELSE <<>>
         IN vrfs_loop(Tail(ints),
                IF interface.vrf # <<>>
                THEN Put(vrfs, name, [ints |-> Append(old, interface.name),
                                      id |-> interface.vrf[1].rd])
                ELSE vrfs)

get_vrfs(self, snap) ==
    LET fetched == fetch_device_interfaces(self, snap)
    IN [self |-> fetched.self, value |-> vrfs_loop(fetched.value, <<>>)]

-----------------------------------------------------------------------------
\* _get_interface_ip_addresses

\* The dict interface name -> {4: [...], 6: [...]} built from the device's
\* addresses.
RECURSIVE group_ip_addresses(_, _)
group_ip_addresses(ips, acc) ==
    IF ips = <<>> THEN acc
    ELSE LET ip_address == Head(ips)
             name == ip_address.assigned_object.name
             acc1 == IF name \in DOMAIN acc THEN acc
                     ELSE Put(acc, name, (4 :> <<>>) @@ (6 :> <<>>))
         IN group_ip_addresses(Tail(ips),
                [acc1 EXCEPT ![name][ip_address.family.value] = Append(@, ip_address)])

get_interface_ip_addresses(self, snap, interface_name) ==
    LET fetched == fetch_device_ip_addresses(self, snap)
        self1 == IF DOMAIN self.interface_ip_addresses = {}
                 THEN [fetched.self EXCEPT !.interface_ip_addresses =
                                               group_ip_addresses(fetched.value, <<>>)]
                 ELSE self
    IN IF interface_name \in DOMAIN self1.interface_ip_addresses
       THEN [self |-> self1] @@ Ok(self1.interface_ip_addresses[interface_name])
       ELSE [self |-> self1] @@ Raise("KeyError")

-----------------------------------------------------------------------------
\* The address map of one interface.

\* Number of bits of an address of family fam.
AddressBits(fam) == IF fam = 4 THEN 32 ELSE 128

\* ip_interface(a).network.network_address
network_address(a) == a.ip - (a.ip % (2 ^ (AddressBits(a.fam) - a.plen)))

\* ip_interface(virt_ip) in int_ip.network
in_network(virt_ip, int_ip) ==
    /\ virt_ip.fam = int_ip.fam
    /\ virt_ip.ip - (virt_ip.ip % (2 ^ (AddressBits(int_ip.fam) - int_ip.plen)))
         = network_address(int_ip)

\* "vrrp_group": the group id 0 counts as no group id
is_vrrp_truthy(vrrp_group) == vrrp_group # <<>> /\ vrrp_group[1] # 0

\* "vrrp_group or vrrp_group == 0": the virtual address has a group id
is_vrrp(vrrp_group) == vrrp_group # <<>>

\* virt_ips[address] = group on the insertion-ordered dict virt_ips
virt_put(virt_ips, address, group) ==
    IF \E i \in 1..Len(virt_ips) : virt_ips[i].address = address
    THEN [i \in 1..Len(virt_ips) |->
            IF virt_ips[i].address = address
            THEN [address |-> address, group |-> group] ELSE virt_ips[i]]
    ELSE Append(virt_ips, [address |-> address, group |-> group])

\* The loop over the addresses of one family: st = [ips, virt_ips, anycast_gw].
RECURSIVE real_ips_loop(_, _, _)
real_ips_loop(addresses, count, st) ==
    IF addresses = <<>> THEN st
    ELSE LET ip_address == Head(addresses)
             anycast == ip_address.role # <<>> /\ ip_address.role[1].value = "anycast"
         IN real_ips_loop(Tail(addresses), count,
                IF anycast /\ count > 1
                THEN [st EXCEPT !.virt_ips = virt_put(@, ip_address.address, <<>>),
                                !.anycast_gw = <<"vga">>]
                ELSE [st EXCEPT !.ips = Put(@, ip_address.address, <<>>),
                                !.anycast_gw = IF anycast THEN <<"single">> ELSE @])

\* The loops over the FHRP groups assigned to the interface.
RECURSIVE fhrp_group_loop(_, _, _)
fhrp_group_loop(ip_addresses, group_id, virt_ips) ==
    IF ip_addresses = <<>> THEN virt_ips
    ELSE fhrp_group_loop(Tail(ip_addresses), group_id,
                         virt_put(virt_ips, Head(ip_addresses).address, <<group_id>>))

RECURSIVE fhrp_loop(_, _)
fhrp_loop(assignments, virt_ips) ==
    IF assignments = <<>> THEN virt_ips
    ELSE fhrp_loop(Tail(assignments),
                   fhrp_group_loop(Head(assignments).group.ip_addresses,
                                   Head(assignments).group.group_id, virt_ips))

\* The loop over virt_ips for one real address: the entry of int_ip.
RECURSIVE attach_virtual(_, _, _)
attach_virtual(int_ip, virt_ips, entry) ==
    IF virt_ips = <<>> THEN entry
    ELSE LET v == Head(virt_ips)
         IN attach_virtual(int_ip, Tail(virt_ips),
                IF in_network(v.address, int_ip)
                THEN IF is_vrrp(v.group)
                     THEN Put(entry, "vrrp", (ip_of(v.address) :> v.group[1]))
                     ELSE Put(entry, "anycast", ip_of(v.address))
                ELSE entry)

\* The "ips" block: interface_config with 'ips' and 'anycast_gw' set.
interface_ips(snap, nb_int, int_addresses, interface_config) ==
    LET st4 == real_ips_loop(int_addresses[4], Len(int_addresses[4]),
                             [ips |-> <<>>, virt_ips |-> <<>>, anycast_gw |-> <<>>])
        st6 == real_ips_loop(int_addresses[6], Len(int_addresses[6]),
                             [st4 EXCEPT !.ips = <<>>])
        virt_ips == IF nb_int.count_fhrp_groups > 0
                    THEN fhrp_loop(FhrpAssignmentsOf(snap, nb_int.id), st6.virt_ips)
                    ELSE st6.virt_ips
        ips == (4 :> [int_ip \in DOMAIN st4.ips |-> attach_virtual(int_ip, virt_ips, <<>>)])
               @@ (6 :> [int_ip \in DOMAIN st6.ips |-> attach_virtual(int_ip, virt_ips, <<>>)])
        with_ips == Put(interface_config, "ips", ips)
    IN IF st6.anycast_gw # <<>>
       THEN Put(with_ips, "anycast_gw", st6.anycast_gw[1])
       ELSE with_ips

-----------------------------------------------------------------------------
\* _get_junos_interfaces

\* The mode and VLAN block.
interface_vlans(nb_int, interface_config) ==
    IF nb_int.mode = <<>> THEN interface_config
    ELSE LET mode == nb_int.mode[1].value
             untagged == nb_int.untagged_vlan
             vlans ==
                 (IF mode = "access" /\ untagged = <<>> THEN {S_default} ELSE {})
                 \cup (IF mode = "tagged"
                       THEN {nb_int.tagged_vlans[i].name : i \in 1..Len(nb_int.tagged_vlans)}
                       ELSE {})
                 \cup (IF untagged # <<>> THEN {untagged[1].name} ELSE {})
             c1 == Put(interface_config, "mode", mode)
             c2 == IF untagged # <<>> /\ mode = "tagged"
                   THEN Put(c1, "native_vlan_id", untagged[1].vid) ELSE c1
         IN Put(c2, "vlans", vlans)

\* The MAC and VRF blocks.
interface_mac_vrf(nb_int, interface_config) ==
    LET c1 == IF nb_int.mac_address # <<>>
              THEN Put(interface_config, "mac", nb_int.mac_address) ELSE interface_config
    IN IF nb_int.vrf # <<>> THEN Put(c1, "vrf", nb_int.vrf[1].name) ELSE c1

\* A LAG member: the node replaces whatever jri holds under its name.
place_lag_member(jri, interface_name, interface_config) ==
    Put(jri, interface_name, interface_config)

\* The last block of the loop: the node goes in jri, under its own name or as
\* 'sub' of its parent.
place_interface(jri, interface_name, interface_config) ==
    IF HasChar(interface_name, ".")
    THEN LET parent == SplitHead(interface_name, ".")
             sub == SplitRest(interface_name, ".")
         IN IF parent \in DOMAIN jri
            THEN Put(jri, parent,
                     Put(jri[parent], "sub",
                         Put(IF "sub" \in DOMAIN jri[parent] THEN jri[parent].sub ELSE <<>>,
                             sub, interface_config)))
            ELSE Put(jri, parent, [sub |-> (sub :> interface_config), enabled |-> TRUE])
    ELSE IF interface_name \in DOMAIN jri
         THEN Put(jri, interface_name, Update(jri[interface_name], interface_config))
         ELSE Put(jri, interface_name, interface_config)

\* lags_members[lag].append(member) on the insertion-ordered defaultdict
lags_append(lags_members, lag, member) ==
    IF \E i \in 1..Len(lags_members) : lags_members[i].lag = lag
    THEN [i \in 1..Len(lags_members) |->
            IF lags_members[i].lag = lag
            THEN [lags_members[i] EXCEPT !.members = Append(@, member)]
            ELSE lags_members[i]]
    ELSE Append(lags_members, [lag |-> lag, members |-> <<member>>])

\* One turn of the loop over the interfaces, st = [self, jri, lags_members,
\* raised], written as the sequence of its blocks: each block hands what it
\* has computed to the next one.

\* The addresses of the interface and its place in jri.
junos_addresses(st, snap, nb_int, c3, addresses) ==
    IF addresses.raised # ""
    THEN [st EXCEPT !.self = addresses.self, !.raised = addresses.raised]
    ELSE [st EXCEPT
            !.self = addresses.self,
            !.jri = place_interface(@, nb_int.name,
                        interface_ips(snap, nb_int, addresses.value, c3))]

\* "if nb_int.count_ipaddresses > 0"
junos_ips(st, snap, nb_int, self, c3) ==
    IF nb_int.count_ipaddresses = 0
    THEN [st EXCEPT !.self = self, !.jri = place_interface(@, nb_int.name, c3)]
    ELSE junos_addresses(st, snap, nb_int, c3,
                         get_interface_ip_addresses(self, snap, nb_int.name))

\* The MTU, MAC, VRF, mode and VLANs.
junos_attributes(st, snap, nb_int, c2, mtu) ==
    junos_ips(st, snap, nb_int, mtu.self,
              interface_vlans(nb_int,
                  interface_mac_vrf(nb_int, Put(c2, "mtu", mtu.value))))

\* "if nb_int.lag": a LAG member is stored at once
junos_lag_member(st, snap, nb_int, self, c2) ==
    IF nb_int.lag # <<>>
    THEN [st EXCEPT
            !.self = self,
            !.jri = place_lag_member(@, nb_int.name, Put(c2, "lag", nb_int.lag[1].name)),
            !.lags_members = lags_append(@, nb_int.lag[1].name, nb_int.name)]
    ELSE junos_attributes(st, snap, nb_int, c2, interface_mtu(self, snap, nb_int.name))

\* The description and the type.
junos_description(st, snap, nb_int, self, c1, described) ==
    IF described.raised # ""
    THEN [st EXCEPT !.self = self, !.raised = described.raised]
    ELSE junos_lag_member(st, snap, nb_int, self,
             Put(Put(c1, "description", described.value), "type", nb_int.type.value))

\* interface_config.update(self._get_link_data(nb_int))
junos_link_data(st, snap, nb_int, ld) ==
    IF ld.raised # ""
    THEN [st EXCEPT !.self = ld.self, !.raised = ld.raised]
    ELSE junos_description(st, snap, nb_int, ld.self,
                           Update([enabled |-> nb_int.enabled], ld.value),
                           interface_description(
                               Update([enabled |-> nb_int.enabled], ld.value)))

junos_step(st, snap, nb_int) ==
    IF st.raised # "" THEN st
    ELSE IF nb_int.name \in ignore_interfaces \/ StartsWith(nb_int.name, S_vcp)
    THEN st
    ELSE junos_link_data(st, snap, nb_int, get_link_data(st.self, snap, nb_int))

RECURSIVE junos_loop(_, _, _)
junos_loop(ints, snap, st) ==
    IF ints = <<>> THEN st
    ELSE junos_loop(Tail(ints), snap, junos_step(st, snap, Head(ints)))

\* The whole name of every member.
member_prefixes_whole(members) == {members[i] : i \in 1..Len(members)}

\* member.split('-')[0] of every member
member_prefixes(members) == {SplitHead(members[i], "-") : i \in 1..Len(members)}

\* The link type of the last member that has one.
member_link_type_last(jri, members) ==
    LET donors == SelectSeq(members, LAMBDA m : jri[m].link_type # <<>>)
    IN IF donors = <<>> THEN <<>> ELSE jri[donors[Len(donors)]].link_type

\* "for member in members: if jri[member]['link_type']: ... break": the link
\* type of the first member that has one, <<>> when none has.
member_link_type(jri, members) ==
    LET donors == SelectSeq(members, LAMBDA m : jri[m].link_type # <<>>)
    IN IF donors = <<>> THEN <<>> ELSE jri[donors[1]].link_type

\* One turn of the loop over lags_members: st = [jri, raised].
lag_step(st, lag, members) ==
    LET mixed == Cardinality(member_prefixes(members)) > 1
        n1 == IF mixed THEN Put(st.jri[lag], "mixed", TRUE) ELSE st.jri[lag]
        n2 == IF n1.link_type = <<>> /\ member_link_type(st.jri, members) # <<>>
              THEN [n1 EXCEPT !.link_type = member_link_type(st.jri, members)]
              ELSE n1
    IN IF st.raised # "" THEN st
       ELSE IF lag \notin DOMAIN st.jri THEN [st EXCEPT !.raised = "KeyError"]
       ELSE IF "link_type" \notin DOMAIN n1 THEN [st EXCEPT !.raised = "KeyError"]
       ELSE [st EXCEPT !.jri = Put(@, lag, n2)]

RECURSIVE lags_loop(_, _)
lags_loop(lags_members, st) ==
    IF lags_members = <<>> THEN st
    ELSE lags_loop(Tail(lags_members),
                   lag_step(st, Head(lags_members).lag, Head(lags_members).members))

\* The end of _get_junos_interfaces: the tree is stored and returned.
junos_store(looped, lagged) ==
    IF lagged.raised # ""
    THEN [self |-> looped.self] @@ Raise(lagged.raised)
    ELSE [self |-> [looped.self EXCEPT !.junos_interfaces = lagged.jri]]
         @@ Ok(lagged.jri)

\* "Process LAGs"
junos_lags(looped) ==
    IF looped.raised # ""
    THEN [self |-> looped.self] @@ Raise(looped.raised)
    ELSE junos_store(looped, lags_loop(looped.lags_members,
                                       [jri |-> looped.jri, raised |-> ""]))

\* The loop over the fetched interfaces.
junos_build(fetched, snap) ==
    junos_lags(junos_loop(fetched.value, snap,
                          [self |-> fetched.self, jri |-> <<>>,
                           lags_members |-> <<>>, raised |-> ""]))

\* _get_junos_interfaces(): [self, raised, value]
get_junos_interfaces(self, snap) ==
    IF DOMAIN self.junos_interfaces # {}
    THEN [self |-> self] @@ Ok(self.junos_interfaces)
    ELSE junos_build(fetch_device_interfaces(self, snap), snap)

-----------------------------------------------------------------------------
\* _get_qos_interfaces

DSCP_V4_CLASSIFIER == [dscp_classifier |-> TRUE]
DSCP_DUAL_CLASSIFIER == [dscp_classifier |-> TRUE, dscp_ip6_classifier |-> TRUE]

\* "We ignore certain interfaces"
qos_ignored(int_name, int_conf) ==
    \/ StartsWithAny(int_name, NO_QOS_INTS)
    \/ "lag" \in DOMAIN int_conf
    \/ ~int_conf.enabled

\* The description and shaper of a QoS entry; the rate is int(speed * 0.98).
qos_base(int_conf) ==
    LET q1 == IF "description" \in DOMAIN int_conf
              THEN [units |-> <<>>, description |-> int_conf.description]
              ELSE [units |-> <<>>]
    IN IF "upstream_speed" \in DOMAIN int_conf /\ int_conf.upstream_speed # 0
       THEN Put(q1, "shape_rate", (int_conf.upstream_speed * 98) \div 100)
       ELSE q1

\* The branch of the switch roles.
qos_switch(int_conf, device_type, q) ==
    IF "vlans" \in DOMAIN int_conf /\ int_conf.vlans # {}
    THEN [q EXCEPT !.units = IF device_type.slug \in JUNIPER_LEGACY_SW
                             THEN (0 :> DSCP_V4_CLASSIFIER)
                             ELSE (0 :> DSCP_DUAL_CLASSIFIER)]
    ELSE IF "ips" \in DOMAIN int_conf \/ "sub" \in DOMAIN int_conf
         THEN Update(q, DSCP_V4_CLASSIFIER)
         ELSE q

\* The branch of the core routers without the tunnel units.
qos_router_no_tunnel(int_name, int_conf, q) ==
    LET units == IF "sub" \in DOMAIN int_conf THEN DOMAIN int_conf.sub ELSE {0}
    IN IF "link_type" \in DOMAIN int_conf /\ int_conf.link_type \in {S_Core, S_Transport}
       THEN Ok([q EXCEPT !.units = [unit \in units |-> DSCP_DUAL_CLASSIFIER]])
       ELSE Ok(q)

\* The branch of the core routers: [raised, value].
qos_router(int_name, int_conf, q) ==
    LET units == IF "sub" \in DOMAIN int_conf THEN DOMAIN int_conf.sub ELSE {0}
    IN IF "link_type" \in DOMAIN int_conf /\ int_conf.link_type \in {S_Core, S_Transport}
       THEN Ok([q EXCEPT !.units = [unit \in units |-> DSCP_DUAL_CLASSIFIER]])
       ELSE IF StartsWith(int_name, S_gr)
       THEN IF "sub" \notin DOMAIN int_conf
            THEN Raise("KeyError")  \* int_conf['sub']
            ELSE Ok([q EXCEPT !.units =
                        [unit \in {u \in DOMAIN int_conf.sub :
                                     int_conf.sub[u].link_type = S_TransportTun}
                           |-> DSCP_DUAL_CLASSIFIER]])
       ELSE Ok(q)

\* The QoS entry of one interface of the tree: [raised, value].
qos_entry(snap, int_name, int_conf) ==
    IF snap.role.slug \in SWITCHES_ROLES
    THEN Ok(qos_switch(int_conf, snap.device_type, qos_base(int_conf)))
    ELSE IF snap.role.slug = "cr"
    THEN qos_router(int_name, int_conf, qos_base(int_conf))
    ELSE Ok(qos_base(int_conf))

\* The store that writes the units of every QoS entry in the node of the tree
\* as well.
qos_store_in_tree(self, qos_ints) ==
    [self EXCEPT !.qos_interfaces = qos_ints,
                 !.junos_interfaces =
                     [n \in DOMAIN @ |->
                        IF n \in DOMAIN qos_ints
                        THEN Put(@[n], "units", qos_ints[n].units) ELSE @[n]]]

\* self._qos_interfaces = qos_ints: the tree is read, never written
qos_store(self, qos_ints) == [self EXCEPT !.qos_interfaces = qos_ints]

\* The loop of _get_qos_interfaces over the tree jri.
qos_build(snap, built, jri, kept) ==
    IF built.raised # ""
    THEN [self |-> built.self] @@ Raise(built.raised)
    ELSE IF \E n \in kept : qos_entry(snap, n, jri[n]).raised # ""
    THEN [self |-> built.self] @@ Raise("KeyError")
    ELSE [self |-> qos_store(built.self, [n \in kept |-> qos_entry(snap, n, jri[n]).value])]
         @@ Ok([n \in kept |-> qos_entry(snap, n, jri[n]).value])

\* The tree the QoS map is built from.
qos_tree(snap, built) ==
    qos_build(snap, built, built.self.junos_interfaces,
              {n \in DOMAIN built.self.junos_interfaces :
                 ~qos_ignored(n, built.self.junos_interfaces[n])})

\* _get_qos_interfaces(): [self, raised, value]
get_qos_interfaces(self, snap) ==
    IF DOMAIN self.qos_interfaces # {}
    THEN [self |-> self] @@ Ok(self.qos_interfaces)
    ELSE IF DOMAIN self.junos_interfaces = {}
    THEN qos_tree(snap, get_junos_interfaces(self, snap))
    ELSE qos_tree(snap, [self |-> self] @@ Ok(self.junos_interfaces))

-----------------------------------------------------------------------------
\* Inventory records.

\* A Netbox interface of the local device with no cable, no address and every
\* optional attribute unset.
nb_int(id, name) ==
    [id |-> id, name |-> name, device_id |-> 1, vc_id |-> 0, enabled |-> TRUE,
     description |-> <<>>, type |-> [value |-> "10gbase-x-sfpp"], lag |-> <<>>,
     cable |-> <<>>, link_peers_type |-> "", link_peers |-> <<>>,
     connected_endpoints_type |-> "", connected_endpoints |-> <<>>,
     mtu |-> 0, mac_address |-> <<>>, vrf |-> <<>>, mode |-> <<>>,
     untagged_vlan |-> <<>>, tagged_vlans |-> <<>>,
     count_ipaddresses |-> 0, count_fhrp_groups |-> 0]

device(name, role, vc) ==
    [name |-> name, role |-> [slug |-> role], virtual_chassis |-> vc]

\* The far interface of a path: an interface of another device.
far_int(dev) == [name |-> I_ge5, device |-> dev]

Dev_sw2 == device(D_sw2, "asw", <<>>)
Dev_srv == device(D_srv, "server", <<>>)
Dev_vcm == device(D_member, "asw", <<[domain |-> D_domain]>>)
Dev_cr1 == device(D_cr1, "cr", <<>>)
RemoteDevices == {Dev_sw2, Dev_srv, Dev_vcm, Dev_cr1}

\* A circuit with `n` terminations (1: only the local one).
circuit(n, type, description, speed) ==
    [cid |-> C_cid, type |-> [name |-> type], provider |-> [name |-> P_Telia],
     description |-> description, terminations |-> n,
     termination_z |-> IF n = 2 THEN <<[upstream_speed |-> speed]>> ELSE <<>>]

Circuits ==
    {circuit(1, S_Transit, <<>>, 0), circuit(2, S_Transport, C_desc, 0),
     circuit(2, S_Transit, <<>>, 500)}

\* What can be connected to an interface: the attributes of the interface
\* that describe its cable, the cable's other end and the end of the path.
no_cable ==
    [cable |-> <<>>, link_peers_type |-> "", link_peers |-> <<>>,
     connected_endpoints_type |-> "", connected_endpoints |-> <<>>]

link(label, peers_type, peers, ends_type, ends) ==
    [cable |-> <<[label |-> label]>>, link_peers_type |-> peers_type,
     link_peers |-> peers, connected_endpoints_type |-> ends_type,
     connected_endpoints |-> ends]

\* The end of a path through circuit c: nothing (the circuit has no far
\* termination, or the far termination has no cable), a provider network, or
\* the interface the far termination is cabled to.
CircuitEnds(c) ==
    {[type |-> "", ends |-> <<>>]}
    \cup (IF c.terminations = 2
          THEN {[type |-> "circuits.providernetwork", ends |-> <<[name |-> P_Telia]>>]}
               \cup {[type |-> "dcim.interface", ends |-> <<far_int(d)>>] :
                        d \in RemoteDevices}
          ELSE {})

circuit_termination(c) == [circuit |-> c]

\* A patch-panel front port whose rear port is `rear` (none, or a rear port
\* with its own cable end).
front_port(rear) == [rear_port |-> rear]
rear_port(peers_type, peers) == [link_peers_type |-> peers_type, link_peers |-> peers]

Links(label) ==
    \* a cable with nothing on its other end
    {link(label, "", <<>>, "", <<>>)}
    \* a cable to an interface of another device
    \cup {link(label, "dcim.interface", <<far_int(d)>>, "dcim.interface", <<far_int(d)>>) :
            d \in RemoteDevices}
    \* a cable to a front port without rear port
    \cup {link(label, "dcim.frontport", <<front_port(<<>>)>>, "", <<>>)}
    \* a front port whose rear port has no cable
    \cup {link(label, "dcim.frontport", <<front_port(<<rear_port("", <<>>)>>)>>, "", <<>>)}
    \* patched through to an interface of another device
    \cup {link(label, "dcim.frontport",
               <<front_port(<<rear_port("dcim.interface", <<far_int(d)>>)>>)>>,
               "dcim.interface", <<far_int(d)>>) : d \in RemoteDevices}
    \* patched through to a second patch panel, that leads nowhere
    \cup {link(label, "dcim.frontport",
               <<front_port(<<rear_port("dcim.rearport", <<rear_port("", <<>>)>>)>>)>>,
               "", <<>>)}
    \* a cable to a circuit termination
    \cup UNION {{link(label, "circuits.circuittermination", <<circuit_termination(c)>>,
                      e.type, e.ends) : e \in CircuitEnds(c)} : c \in Circuits}
    \* patched through to a circuit termination
    \cup UNION {{link(label, "dcim.frontport",
                      <<front_port(<<rear_port("circuits.circuittermination",
                                               <<circuit_termination(c)>>)>>)>>,
                      e.type, e.ends) : e \in CircuitEnds(c)} : c \in Circuits}

\* An IPv4 address with its prefix length, as Netbox writes "a.b.c.d/plen".
ipv4(a, b, c, d, plen) ==
    [fam |-> 4, ip |-> ((a * 256 + b) * 256 + c) * 256 + d, plen |-> plen]

\* A termination of tunnel 1 on interface `termination_id`.
tunnel_termination(id, termination_id, role, dev, name) ==
    [id |-> id, termination_id |-> termination_id, role |-> [value |-> role],
     outside_ip |-> ipv4(10, 64, 0, id, 32),
     tunnel |-> [id |-> 1, name |-> T_tun1, description |-> T_tocf,
                 hub_ip |-> ipv4(10, 64, 9, 9, 32)],
     termination |-> [name |-> name, device |-> [name |-> dev]]]

\* The inventory of a device: the local device is device 1.
inventory(role, ints, ips, fhrp, tunnels) ==
    [device_id |-> 1, virtual_chassis |-> 0, role |-> [slug |-> role],
     device_type |-> [slug |-> "mx480"], interfaces |-> ints, ip_addresses |-> ips,
     fhrp_group_assignments |-> fhrp, tunnel_terminations |-> tunnels]

Labels == {<<>>, L_C123}
Descriptions == {<<>>, T_uplink}

\* One interface, with anything connected to it.
LinkInventoriesOne ==
    {inventory("cr", <<Update([nb_int(1, N_xe2) EXCEPT !.enabled = en,
                                                      !.description = de], l)>>,
               <<>>, <<>>, <<>>) :
        en \in BOOLEAN, de \in Descriptions,
        l \in {no_cable} \cup UNION {Links(x) : x \in Labels}}

\* A sub-interface without cable and its parent, in either order.
LinkInventoriesSub ==
    UNION {{inventory("cr", <<p, s>>, <<>>, <<>>, <<>>),
            inventory("cr", <<s, p>>, <<>>, <<>>, <<>>)} :
        p \in {Update([nb_int(1, N_xe1) EXCEPT !.description = de], l) :
                 de \in {<<>>, T_trunk},
                 l \in {no_cable,
                        link(L_C123, "dcim.interface", <<far_int(Dev_sw2)>>,
                             "dcim.interface", <<far_int(Dev_sw2)>>),
                        link(L_C123, "dcim.frontport", <<front_port(<<>>)>>, "", <<>>)}},
        s \in {[nb_int(2, N_xe1u0) EXCEPT !.description = de] : de \in Descriptions}}

\* A tunnel interface: without termination, as spoke or hub of a tunnel
\* without other termination, and as one side of a two-sided tunnel.
LinkInventoriesTunnel ==
    {inventory("cr", <<[nb_int(1, N_gr0u1) EXCEPT !.type = [value |-> "virtual"],
                                                  !.enabled = en,
                                                  !.description = de]>>,
               <<>>, <<>>, t) :
        en \in BOOLEAN, de \in Descriptions,
        t \in {<<>>,
               <<tunnel_termination(1, 1, "spoke", D_local, N_gr0u1)>>,
               <<tunnel_termination(1, 1, "hub", D_local, N_gr0u1)>>,
               <<tunnel_termination(1, 1, "peer", D_local, N_gr0u1)>>,
               <<tunnel_termination(1, 1, "peer", D_local, N_gr0u1),
                 tunnel_termination(2, 9, "peer", D_sw2, I_ge5)>>}}

\* The local device is a member of virtual chassis 7: the interface of
\* another member, on a circuit.
LinkInventoriesVC ==
    {[inventory("asw", <<Update([nb_int(1, N_xe2) EXCEPT !.device_id = 2, !.vc_id = 7], l)>>,
                <<>>, <<>>, <<>>) EXCEPT !.virtual_chassis = 7] :
        l \in {x \in Links(L_C123) : x.link_peers_type = "circuits.circuittermination"}}

LinkInventories ==
    LinkInventoriesOne \cup LinkInventoriesSub \cup LinkInventoriesTunnel
    \cup LinkInventoriesVC

\* An inventory without any record.
EmptyInventory == inventory("cr", <<>>, <<>>, <<>>, <<>>)

\* Dicts handed to interface_description by a caller: every combination of
\* the attributes it reads.
IntconfInputs ==
    {[enabled |-> en, nb_int_desc |-> de, circuit_id |-> ci, circuit_desc |-> <<>>,
      link_type |-> lt, z_dev |-> zd, z_int |-> I_ge5, wmf_z_end |-> we,
      tunnel |-> tu, upstream_speed |-> 0, provider |-> P_Telia, cable_label |-> la] :
        en \in BOOLEAN, de \in Descriptions, ci \in {<<>>, C_cid},
        lt \in {<<>>, S_Core}, zd \in {<<>>, D_sw2}, we \in BOOLEAN,
        tu \in {<<>>, <<[description |-> T_tocf]>>}, la \in Labels}

-----------------------------------------------------------------------------
\* The instance.

Self ==
    [device_interfaces |-> device_interfaces,
     device_ip_addresses |-> device_ip_addresses,
     interface_ip_addresses |-> interface_ip_addresses,
     bgp_servers |-> bgp_servers,
     junos_interfaces |-> junos_interfaces,
     qos_interfaces |-> qos_interfaces,
     queries |-> queries]

SetSelf(self) ==
    /\ device_interfaces' = self.device_interfaces
    /\ device_ip_addresses' = self.device_ip_addresses
    /\ interface_ip_addresses' = self.interface_ip_addresses
    /\ bgp_servers' = self.bgp_servers
    /\ junos_interfaces' = self.junos_interfaces
    /\ qos_interfaces' = self.qos_interfaces
    /\ queries' = self.queries

\* __init__
InitInstance ==
    /\ device_interfaces = <<>>
    /\ device_ip_addresses = <<>>
    /\ interface_ip_addresses = <<>>
    /\ bgp_servers = <<>>
    /\ junos_interfaces = <<>>
    /\ qos_interfaces = <<>>
    /\ queries = [interfaces |-> 0, ip_addresses |-> 0]
    /\ instance = 1
    /\ trees = <<>>

\* The body of the loop of _get_junos_interfaces up to the description, for
\* the i-th interface of the device: _get_link_data(nb_int).
LinkData(i) ==
    LET fetched == fetch_device_interfaces(Self, snapshot)
        r == get_link_data(fetched.self, snapshot, fetched.value[i])
    IN /\ ret.op = "start"
       /\ i \in 1..Len(fetched.value)
       /\ SetSelf(r.self)
       /\ ret' = [op |-> "_get_link_data", source |-> "link_data",
                  nb_int |-> fetched.value[i], raised |-> r.raised, value |-> r.value]
       /\ UNCHANGED <<snapshot, instance, trees>>

\* interface_description(link_data) on the link data just returned, or on the
\* dict a caller made.
Description ==
    /\ ret.op \in {"_get_link_data", "input"}
    /\ ret.raised = ""
    /\ LET r == interface_description(ret.value)
       IN ret' = [op |-> "interface_description", source |-> ret.source,
                  intconf |-> ret.value, nb_int |-> ret.nb_int,
                  raised |-> r.raised, value |-> r.value]
    /\ UNCHANGED <<snapshot, instance, device_interfaces, device_ip_addresses,
                   interface_ip_addresses, bgp_servers, junos_interfaces, qos_interfaces,
                   queries, trees>>

InitLink ==
    /\ InitInstance
    /\ \/ /\ snapshot \in LinkInventories
          /\ ret = [op |-> "start"]
       \/ /\ snapshot = EmptyInventory
          /\ ret \in {[op |-> "input", source |-> "input", raised |-> "",
                       nb_int |-> <<>>, value |-> ic] :
                        ic \in IntconfInputs}

NextLink ==
    \/ \E i \in 1..Len(QueryInterfaces(snapshot)) : LinkData(i)
    \/ Description

SpecLink == InitLink /\ [][NextLink]_vars

-----------------------------------------------------------------------------
\* Inventories for the tree, the QoS map and the caches.

\* An aggregate interface.
nb_lag(id, name) == [nb_int(id, name) EXCEPT !.type = [value |-> "lag"]]

\* A parent interface (plain, or member of ae0) and its sub-interface, with
\* or without a record for the aggregate.
TreeInventoriesPair ==
    {inventory(role, <<[nb_int(1, N_xe1) EXCEPT !.enabled = en, !.lag = lag,
                                                !.mtu = 9192],
                       [nb_int(2, N_xe1u0) EXCEPT !.description = T_uplink]>> \o rest,
               <<>>, <<>>, <<>>) :
        role \in {"cr", "asw"}, en \in BOOLEAN,
        lag \in {<<>>, <<[name |-> N_ae0]>>},
        rest \in {<<>>, <<nb_lag(3, N_ae0)>>}}

\* An aggregate with members of two kinds, one of them on a core link, and a
\* trunk port.
TreeInventoriesLag ==
    {inventory(role,
               <<Update([nb_int(1, N_xe1) EXCEPT !.lag = <<[name |-> N_ae0]>>],
                        link(L_C123, "dcim.interface", <<far_int(Dev_cr1)>>,
                             "dcim.interface", <<far_int(Dev_cr1)>>)),
                 [nb_int(2, N_et3) EXCEPT !.lag = <<[name |-> N_ae0]>>],
                 nb_lag(3, N_ae0),
                 [nb_int(4, N_ae0u1) EXCEPT !.type = [value |-> "virtual"],
                                            !.vrf = <<[name |-> T_trunk, rd |-> 7]>>],
                 [nb_int(5, N_xe2) EXCEPT
                     !.mode = <<[value |-> "tagged"]>>,
                     !.untagged_vlan = <<[name |-> S_default, vid |-> 1]>>,
                     !.tagged_vlans = <<[name |-> T_trunk, vid |-> 2]>>],
                 nb_int(6, N_vcp0)>>,
               <<>>, <<>>, <<>>) : role \in {"cr", "asw"}}

\* Tunnel interfaces of a core router: gr-0/0/0 alone, and with a unit that
\* terminates a tunnel.
TreeInventoriesTunnel ==
    {inventory("cr", <<[nb_int(1, N_gr0) EXCEPT !.type = [value |-> "virtual"]]>>,
               <<>>, <<>>, <<>>),
     inventory("cr", <<[nb_int(1, N_gr0) EXCEPT !.type = [value |-> "virtual"]],
                       [nb_int(2, N_gr0u1) EXCEPT !.type = [value |-> "virtual"]]>>,
               <<>>, <<>>,
               <<tunnel_termination(1, 2, "peer", D_local, N_gr0u1),
                 tunnel_termination(2, 9, "peer", D_sw2, I_ge5)>>)}

\* An address of interface `name` of device `dev`.
ip_address(address, role, dev, name) ==
    [address |-> address, family |-> [value |-> address.fam], role |-> role,
     assigned_object |-> [name |-> name, device_id |-> dev]]

\* The local device is the member 1 of virtual chassis 7; et-0/3 is its own
\* interface, xe-0/2 is the interface of member 2. Both have one address.
TreeInventoriesVC ==
    {[inventory("asw",
                <<[nb_int(1, N_et3) EXCEPT !.vc_id = 7, !.count_ipaddresses = 1]>> \o other,
                <<ip_address(ipv4(10, 0, 0, 1, 24), <<>>, 1, N_et3),
                  ip_address(ipv4(10, 0, 1, 1, 24), <<>>, 2, N_xe2)>>,
                <<>>, <<>>) EXCEPT !.virtual_chassis = 7] :
        other \in {<<>>, <<[nb_int(2, N_xe2) EXCEPT !.device_id = 2, !.vc_id = 7,
                                                   !.count_ipaddresses = 1]>>}}

\* A device with interfaces and no address.
TreeInventoriesNoAddress ==
    {inventory("cr", <<nb_int(1, N_lo0), [nb_int(2, N_et3) EXCEPT !.mtu = 1500]>>,
               <<>>, <<>>, <<>>)}

TreeInventories ==
    TreeInventoriesPair \cup TreeInventoriesLag \cup TreeInventoriesTunnel
    \cup TreeInventoriesVC \cup TreeInventoriesNoAddress \cup {EmptyInventory}

-----------------------------------------------------------------------------
\* The methods called on an instance.

\* Names of the interfaces of the inventory.
InterfaceNames(snap) == {snap.interfaces[i].name : i \in 1..Len(snap.interfaces)}
InterfaceOrder(snap) == [i \in 1..Len(snap.interfaces) |-> snap.interfaces[i].name]

\* The queries stay within the bound.
WithinQueries(self) ==
    /\ self.queries.interfaces <= MaxQueries
    /\ self.queries.ip_addresses <= MaxQueries

FetchInterfaces ==
    LET r == fetch_device_interfaces(Self, snapshot)
    IN /\ WithinQueries(r.self)
       /\ SetSelf(r.self)
       /\ ret' = [op |-> "fetch_device_interfaces", raised |-> ""]
       /\ UNCHANGED <<snapshot, instance, trees>>

FetchIpAddresses ==
    LET r == fetch_device_ip_addresses(Self, snapshot)
    IN /\ WithinQueries(r.self)
       /\ SetSelf(r.self)
       /\ ret' = [op |-> "fetch_device_ip_addresses", raised |-> ""]
       /\ UNCHANGED <<snapshot, instance, trees>>

GetInterfaceIpAddresses(name) ==
    LET r == get_interface_ip_addresses(Self, snapshot, name)
    IN /\ WithinQueries(r.self)
       /\ SetSelf(r.self)
       /\ ret' = [op |-> "_get_interface_ip_addresses", raised |-> r.raised]
       /\ UNCHANGED <<snapshot, instance, trees>>

InterfaceMtu(name) ==
    LET r == interface_mtu(Self, snapshot, name)
    IN /\ WithinQueries(r.self)
       /\ SetSelf(r.self)
       /\ ret' = [op |-> "interface_mtu", raised |-> "", value |-> r.value]
       /\ UNCHANGED <<snapshot, instance, trees>>

GetLagCount ==
    LET r == get_lag_count(Self, snapshot)
    IN /\ WithinQueries(r.self)
       /\ SetSelf(r.self)
       /\ ret' = [op |-> "_get_lag_count", raised |-> "", value |-> r.value]
       /\ UNCHANGED <<snapshot, instance, trees>>

GetVrfs ==
    LET r == get_vrfs(Self, snapshot)
    IN /\ WithinQueries(r.self)
       /\ SetSelf(r.self)
       /\ ret' = [op |-> "_get_vrfs", raised |-> "", value |-> r.value]
       /\ UNCHANGED <<snapshot, instance, trees>>

\* _get_junos_interfaces; the tree it returns is recorded with the instance
\* that returned it, the order of the inventory and whether the QoS map had
\* been built before.
GetJunosInterfaces ==
    LET r == get_junos_interfaces(Self, snapshot)
    IN /\ Len(trees) < MaxTrees
       /\ WithinQueries(r.self)
       /\ SetSelf(r.self)
       /\ ret' = [op |-> "_get_junos_interfaces", raised |-> r.raised]
       /\ trees' = IF r.raised = ""
                   THEN Append(trees, [instance |-> instance,
                                       order |-> InterfaceOrder(snapshot),
                                       qos |-> DOMAIN qos_interfaces # {},
                                       tree |-> r.value])
                   ELSE trees
       /\ UNCHANGED <<snapshot, instance>>

GetQosInterfaces ==
    LET r == get_qos_interfaces(Self, snapshot)
    IN /\ WithinQueries(r.self)
       /\ SetSelf(r.self)
       /\ ret' = [op |-> "_get_qos_interfaces", raised |-> r.raised]
       /\ UNCHANGED <<snapshot, instance, trees>>

\* b is a sub-interface of a
IsSubOf(b, a) == HasChar(b.name, ".") /\ SplitHead(b.name, ".") = a.name

Swap(s, i, j) ==
    [k \in 1..Len(s) |-> IF k = i THEN s[j] ELSE IF k = j THEN s[i] ELSE s[k]]

\* __init__ of another instance, over the same inventory that now lists the
\* parent and sub-interface at positions i and j the other way round.
NewInstance(i, j) ==
    /\ instance < MaxInstances
    /\ i < j
    /\ \/ IsSubOf(snapshot.interfaces[i], snapshot.interfaces[j])
       \/ IsSubOf(snapshot.interfaces[j], snapshot.interfaces[i])
    /\ snapshot' = [snapshot EXCEPT !.interfaces = Swap(@, i, j)]
    /\ instance' = instance + 1
    /\ device_interfaces' = <<>>
    /\ device_ip_addresses' = <<>>
    /\ interface_ip_addresses' = <<>>
    /\ bgp_servers' = <<>>
    /\ junos_interfaces' = <<>>
    /\ qos_interfaces' = <<>>
    /\ queries' = [interfaces |-> 0, ip_addresses |-> 0]
    /\ ret' = [op |-> "__init__", raised |-> ""]
    /\ UNCHANGED trees

Init ==
    /\ InitInstance
    /\ snapshot \in TreeInventories
    /\ ret = [op |-> "__init__", raised |-> ""]

Next ==
    \/ FetchInterfaces
    \/ FetchIpAddresses
    \/ \E name \in InterfaceNames(snapshot) : GetInterfaceIpAddresses(name)
    \/ \E name \in InterfaceNames(snapshot) : InterfaceMtu(name)
    \/ GetLagCount
    \/ GetVrfs
    \/ GetJunosInterfaces
    \/ GetQosInterfaces
    \/ \E i, j \in 1..Len(snapshot.interfaces) : NewInstance(i, j)

Spec == Init /\ [][Next]_vars

-----------------------------------------------------------------------------
\* Inventories for the address map: one interface, top-level (et-0/3) or
\* sub-interface (xe-0/1.0 of xe-0/1), with real, anycast and FHRP addresses.

\* An IPv6 address given by its last 32 bits, as Netbox writes "::x/plen".
ipv6(low, plen) == [fam |-> 6, ip |-> low, plen |-> plen]

\* An FHRP group assigned to interface `interface_id`.
fhrp_assignment(interface_id, group_id, addresses) ==
    [interface_id |-> interface_id,
     group |-> [group_id |-> group_id,
                ip_addresses |-> [k \in 1..Len(addresses) |-> [address |-> addresses[k]]]]]

anycast == <<[value |-> "anycast"]>>

\* The addresses of the interface: 10.0.0.1/24, 10.1.0.1/24, 10.0.9.1/16 and
\* ::a00:1/120 are real, 10.0.0.200, 10.1.0.200 and ::a00:c8 are anycast.
AddressLists(dev, name) ==
    LET R1 == ip_address(ipv4(10, 0, 0, 1, 24), <<>>, dev, name)
        R2 == ip_address(ipv4(10, 1, 0, 1, 24), <<>>, dev, name)
        R6 == ip_address(ipv6(ipv4(10, 0, 0, 1, 0).ip, 120), <<>>, dev, name)
        A1 == ip_address(ipv4(10, 0, 0, 200, 32), anycast, dev, name)
        A2 == ip_address(ipv4(10, 1, 0, 200, 24), anycast, dev, name)
        R16 == ip_address(ipv4(10, 0, 9, 1, 16), <<>>, dev, name)
        A6 == ip_address(ipv6(ipv4(10, 0, 0, 200, 0).ip, 128), anycast, dev, name)
    IN {<<R1>>, <<R2>>, <<A1>>, <<R1, A1>>, <<R1, A2>>, <<R1, R2, A1>>, <<R1, R6>>,
        <<R1, R16>>, <<A1, R6, A6>>, <<R1, A1, A6>>, <<R1, A1, R6, A6>>}

\* The FHRP groups: 5 (10.0.0.254), 0 (10.0.0.253), 7 (10.1.0.254),
\* 6 (::a00:fe) and 8 (10.0.0.250 and 10.0.0.251), assigned to the interface
\* or to another one (9).
FhrpLists(id) ==
    LET G5 == fhrp_assignment(id, 5, <<ipv4(10, 0, 0, 254, 32)>>)
        G0 == fhrp_assignment(id, 0, <<ipv4(10, 0, 0, 253, 32)>>)
        G7 == fhrp_assignment(id, 7, <<ipv4(10, 1, 0, 254, 32)>>)
        G6 == fhrp_assignment(id, 6, <<ipv6(ipv4(10, 0, 0, 254, 0).ip, 128)>>)
        G9 == fhrp_assignment(9, 9, <<ipv4(10, 0, 0, 252, 32)>>)
        G8 == fhrp_assignment(id, 8, <<ipv4(10, 0, 0, 250, 32), ipv4(10, 0, 0, 251, 32)>>)
    IN {<<>>, <<G5>>, <<G0>>, <<G7>>, <<G5, G7>>, <<G6>>, <<G0, G6>>, <<G9>>, <<G9, G5>>,
        <<G5, G0>>, <<G8>>}

\* The number of FHRP groups Netbox counts for interface id.
CountFhrp(fhrp, id) == Len(SelectSeq(fhrp, LAMBDA f : f.interface_id = id))

AddrInventories ==
    {inventory("cr",
               <<[nb_int(1, N_et3) EXCEPT !.count_ipaddresses = Len(ips),
                                          !.count_fhrp_groups = CountFhrp(fhrp, 1)]>>,
               ips, fhrp, <<>>) :
        ips \in AddressLists(1, N_et3), fhrp \in FhrpLists(1)}
    \cup
    {inventory("asw",
               <<nb_int(1, N_xe1),
                 [nb_int(2, N_xe1u0) EXCEPT !.count_ipaddresses = Len(ips),
                                            !.count_fhrp_groups = CountFhrp(fhrp, 2)]>>,
               ips, fhrp, <<>>) :
        ips \in AddressLists(1, N_xe1u0), fhrp \in FhrpLists(2)}

InitAddr ==
    /\ InitInstance
    /\ snapshot \in AddrInventories
    /\ ret = [op |-> "__init__", raised |-> ""]

NextAddr ==
    \/ GetJunosInterfaces
    \/ GetQosInterfaces

SpecAddr == InitAddr /\ [][NextAddr]_vars

-----------------------------------------------------------------------------
\* Properties of the tree, the QoS map and the caches (Spec).

\* s is the sub-interface p.<unit> of p
IsUnitOf(s, p, unit) == s.name = p.name \o <<".">> \o unit

\* C1: the tree does not depend on the order in which the inventory lists a
\* parent and its sub-interface: the trees returned over both orders are
\* equal, and in each the node of the parent has the parent's own enabled
\* flag and the sub-interface in its 'sub' map.
C1_OrderIndependence ==
    /\ \A a, b \in 1..Len(trees) : trees[a].tree = trees[b].tree
    /\ \A a \in 1..Len(trees) : \A i, j \in 1..Len(snapshot.interfaces) :
          LET p == snapshot.interfaces[i]
              s == snapshot.interfaces[j]
              tree == trees[a].tree
          IN (HasChar(s.name, ".") /\ \E k \in 1..Len(s.name) : IsUnitOf(s, p, SubSeq(s.name, k, Len(s.name))))
             => /\ p.name \in DOMAIN tree
                /\ tree[p.name].enabled = p.enabled
                /\ "sub" \in DOMAIN tree[p.name]
                /\ \E unit \in DOMAIN tree[p.name].sub : IsUnitOf(s, p, unit)

\* C2: an instance issues the interface query and the address query at most
\* once each.
C2_QueriedOnce ==
    /\ queries.interfaces <= 1
    /\ queries.ip_addresses <= 1

\* C3: the trees that one instance returns are equal, whatever was called
\* between the calls.
C3_SameTree ==
    \A a, b \in 1..Len(trees) :
        trees[a].instance = trees[b].instance => trees[a].tree = trees[b].tree

\* C3 witness: one instance has returned a tree with a sub-interface twice,
\* and has built a QoS map with units between the two calls.
C3_Witness ==
    /\ Len(trees) = 2
    /\ trees[1].instance = trees[2].instance
    /\ ~trees[1].qos
    /\ trees[2].qos
    /\ \E n \in DOMAIN trees[2].tree : "sub" \in DOMAIN trees[2].tree[n]
    /\ \E n \in DOMAIN qos_interfaces : DOMAIN qos_interfaces[n].units # {}

\* C5: _get_junos_interfaces and _get_qos_interfaces never raise.
C5_NoRaise ==
    ret.op \in {"_get_junos_interfaces", "_get_qos_interfaces"} => ret.raised = ""

-----------------------------------------------------------------------------
\* Properties of _get_link_data and interface_description (SpecLink).

\* sub is a contiguous part of s
Mentions(s, sub) ==
    \E i \in 0..(Len(s) - Len(sub)) : SubSeq(s, i + 1, i + Len(sub)) = sub

\* _get_link_data has just returned (or raised) for interface ret.nb_int.
LinkReturned == ret.op = "_get_link_data"

\* interface_description has just returned for the link data of ret.nb_int.
Described == ret.op = "interface_description" /\ ret.source = "link_data"

\* The termination a cable reaches after at most one patch panel: the rear
\* port when the cable ends on a front port that has one.
PatchedEnd(nb) ==
    IF nb.link_peers_type = "dcim.frontport" /\ nb.link_peers[1].rear_port # <<>>
    THEN nb.link_peers[1].rear_port[1]
    ELSE nb

EndsOnCircuit(nb) ==
    nb.cable # <<>> /\ PatchedEnd(nb).link_peers_type = "circuits.circuittermination"

EndsOnInterface(nb) ==
    /\ nb.cable # <<>>
    /\ PatchedEnd(nb).link_peers_type = "dcim.interface"
    /\ nb.connected_endpoints # <<>>

IsTunnelName(nb) == SubSeq(nb.name, 1, 3) = <<"g", "r", "-">>

\* An enabled interface with a cable of its own and no Netbox description.
PlainCabled(nb) == nb.enabled /\ nb.description = <<>> /\ nb.cable # <<>>

\* The far end of the interface cannot be resolved: no cable and no parent,
\* a cable without other end, a front port without rear port or with a rear
\* port that leads nowhere, a tunnel without far termination.
FarEndUnresolved(nb) ==
    \/ /\ ~IsTunnelName(nb)
       /\ nb.connected_endpoints = <<>>
       /\ ~EndsOnCircuit(nb)
       /\ nb.cable = <<>> => Len(snapshot.interfaces) = 1
    \/ /\ IsTunnelName(nb)
       /\ Len(snapshot.tunnel_terminations) = 1
       /\ snapshot.tunnel_terminations[1].role.value # "spoke"

\* C4: _get_link_data followed by interface_description never raises, and
\* when the far end cannot be resolved the link data is the no-link
\* descriptor: no remote device, no remote interface, no link class.
C4_LinkDataTotal ==
    (ret.op \in {"_get_link_data", "interface_description"} /\ ret.source = "link_data")
    => /\ ret.raised = ""
       /\ (LinkReturned /\ ret.nb_int.enabled /\ FarEndUnresolved(ret.nb_int))
          => /\ ret.value.z_dev = <<>>
             /\ ret.value.z_int = <<>>
             /\ ret.value.link_type = <<>>

\* C6: the description is chosen by the precedence disabled > Netbox
\* description > tunnel > circuit > direct link > empty, and the call never
\* raises.
C6_DescriptionPrecedence ==
    ret.op = "interface_description"
    => LET ic == ret.intconf
           d == ret.value
           plain == ic.enabled /\ ic.nb_int_desc = <<>>
       IN /\ ret.raised = ""
          /\ ~ic.enabled => d = S_DISABLED
          /\ (ic.enabled /\ ic.nb_int_desc # <<>>) => d = ic.nb_int_desc
          /\ (plain /\ ic.tunnel # <<>>)
             => /\ Mentions(d, ic.tunnel[1].description)
                /\ ~Mentions(d, <<"{", "#">>)
                /\ ic.z_dev = <<>> => d = ic.tunnel[1].description
          /\ (plain /\ ic.tunnel = <<>> /\ ic.circuit_id # <<>>)
             => /\ Mentions(d, <<"(">> \o ic.provider) \/ Mentions(d, ic.provider \o <<" ", "(">>)
                /\ Mentions(d, ic.circuit_id)
          /\ (plain /\ ic.tunnel = <<>> /\ ic.circuit_id = <<>> /\ ic.z_dev # <<>>)
             => /\ Mentions(d, ic.z_dev)
                /\ ~Mentions(d, <<"(">>)
          /\ (plain /\ ic.tunnel = <<>> /\ ic.circuit_id = <<>> /\ ic.z_dev = <<>>)
             => d = <<>>
          /\ ret.source = "link_data"
             => /\ ~ret.nb_int.enabled => d = S_DISABLED
                /\ (ret.nb_int.enabled /\ ret.nb_int.description # <<>>)
                   => d = ret.nb_int.description

\* C6 witness: an enabled interface with a Netbox description, a tunnel, a
\* circuit and a remote device is described by its Netbox description.
C6_Witness ==
    /\ ret.op = "interface_description"
    /\ ret.intconf.enabled
    /\ ret.intconf.nb_int_desc = T_uplink
    /\ ret.intconf.tunnel # <<>>
    /\ ret.intconf.circuit_id # <<>>
    /\ ret.intconf.z_dev # <<>>
    /\ ret.value = T_uplink

\* The description of a circuit whose far end is not managed:
\* "<type>: <provider> (<cid> <description>) {#<label>}".
ProviderOnly(nb, c, ld, d) ==
    /\ ~ld.wmf_z_end
    /\ d = c.type.name \o <<":", " ">> \o c.provider.name \o <<" ", "(">> \o c.cid
           \o (IF c.description = <<>> THEN <<>> ELSE <<" ">> \o c.description)
           \o <<")", " ", "{", "#">> \o nb.cable[1].label \o <<"}">>

\* The description names the device and interface at the far end of the path.
NamesRemote(nb, ld, d) ==
    /\ nb.connected_endpoints # <<>>
    /\ ld.wmf_z_end
    /\ ld.z_dev = nb.connected_endpoints[1].device.name
    /\ ld.z_int = nb.connected_endpoints[1].name
    /\ ld.z_dev # D_local
    /\ Mentions(d, <<":", " ">> \o nb.connected_endpoints[1].device.name \o <<":">>
                   \o nb.connected_endpoints[1].name \o <<" ", "(">>)

C8_VirtualChassisName ==
    (/\ LinkReturned
     /\ ret.raised = ""
     /\ ret.nb_int.enabled
     /\ ret.nb_int.cable # <<>>
     /\ ret.nb_int.connected_endpoints_type = "dcim.interface"
     /\ ret.nb_int.connected_endpoints[1].device.virtual_chassis # <<>>)
    => /\ ret.value.z_dev = D_vcname
       /\ ret.value.z_dev # ret.nb_int.connected_endpoints[1].device.name

\* C9: an enabled interface without Netbox description cabled, directly or
\* through a patch panel, to an interface of another device has link class
\* "Core" exactly when the remote role is a core role, and is then described
\* as "Core: <device>:<interface> {#<label>}"; otherwise the link class is
\* empty and the description is the remote device, with the cable label if
\* any, without the remote interface.
C9_CoreLink ==
    (Described /\ PlainCabled(ret.nb_int) /\ EndsOnInterface(ret.nb_int))
    => LET nb == ret.nb_int
           z == nb.connected_endpoints[1]
           z_dev == IF z.device.virtual_chassis # <<>> THEN D_vcname ELSE z.device.name
           label == nb.cable[1].label
           core == z.device.role.slug \in {"cr", "asw", "mr", "msw", "pfw", "cloudsw"}
       IN /\ ret.raised = ""
          /\ (ret.intconf.link_type = S_Core) <=> core
          /\ core => ret.value = S_Core \o <<":", " ">> \o z_dev \o <<":">> \o z.name
                                 \o <<" ", "{", "#">> \o label \o <<"}">>
          /\ ~core => /\ ret.intconf.link_type = <<>>
                      /\ ret.value = z_dev \o (IF label = <<>> THEN <<>>
                                               ELSE <<" ", "{", "#">> \o label \o <<"}">>)
                      /\ ~Mentions(ret.value, z.name)

\* C9 witness: cabled to ge-0/0/5 of sw2, a core role, with cable label C123:
\* "Core: sw2:ge-0/0/5 {#C123}".
C9_Witness ==
    /\ Described
    /\ ret.nb_int.connected_endpoints = <<far_int(Dev_sw2)>>
    /\ ret.nb_int.link_peers_type = "dcim.frontport"
    /\ ret.value = <<"C", "o", "r", "e", ":", " ", "s", "w", "2", ":", "g", "e", "-",
                     "0", "/", "0", "/", "5", " ", "{", "#", "C", "1", "2", "3", "}">>

-----------------------------------------------------------------------------
\* Properties of the address map (SpecAddr).

\* The nodes of the tree for interface nb: the top-level node of its name, or
\* the node of its unit under its parent.
NodesOf(tree, nb) ==
    {tree[n] : n \in {m \in DOMAIN tree : m = nb.name}}
    \cup UNION {{tree[p].sub[u] : u \in {v \in DOMAIN tree[p].sub :
                                            p \o <<".">> \o v = nb.name}} :
                  p \in {q \in DOMAIN tree : "sub" \in DOMAIN tree[q]}}

\* v lies in the network of r: same family, same leading r.plen bits.
SameSubnet(v, r) ==
    /\ v.fam = r.fam
    /\ v.ip \div (2 ^ ((IF r.fam = 4 THEN 32 ELSE 128) - r.plen))
         = r.ip \div (2 ^ ((IF r.fam = 4 THEN 32 ELSE 128) - r.plen))

\* The addresses of the FHRP groups assigned to nb, with their group id.
FhrpAddresses(nb) ==
    UNION {{[address |-> f.group.ip_addresses[k].address, group_id |-> f.group.group_id] :
              k \in 1..Len(f.group.ip_addresses)} :
           f \in {snapshot.fhrp_group_assignments[i] :
                    i \in {j \in 1..Len(snapshot.fhrp_group_assignments) :
                             snapshot.fhrp_group_assignments[j].interface_id = nb.id}}}

\* The anycast addresses of nb.
AnycastAddresses(nb) ==
    {snapshot.ip_addresses[i].address :
        i \in {j \in 1..Len(snapshot.ip_addresses) :
                 /\ snapshot.ip_addresses[j].assigned_object.name = nb.name
                 /\ snapshot.ip_addresses[j].role = anycast}}

\* C10: in every tree, a virtual address recorded under a real address is an
\* FHRP or anycast address of that interface, of the same family and inside
\* the real address's network; a 'vrrp' entry carries the group id of the
\* FHRP group of its address, and a single FHRP address inside the network
\* of a real address is recorded under it with its group id, 0 included.
C10_VirtualInNetwork ==
    \A a \in 1..Len(trees) : \A i \in 1..Len(snapshot.interfaces) :
        \A node \in NodesOf(trees[a].tree, snapshot.interfaces[i]) :
            "ips" \in DOMAIN node =>
            \A fam \in {4, 6} : \A r \in DOMAIN node.ips[fam] :
                LET nb == snapshot.interfaces[i]
                    entry == node.ips[fam][r]
                IN /\ r.fam = fam
                   /\ "vrrp" \in DOMAIN entry =>
                        \A vip \in DOMAIN entry.vrrp :
                            \E g \in FhrpAddresses(nb) :
                                /\ g.address.fam = vip.fam
                                /\ g.address.ip = vip.ip
                                /\ SameSubnet(g.address, r)
                                /\ entry.vrrp[vip] = g.group_id
                   /\ "anycast" \in DOMAIN entry =>
                        \E x \in AnycastAddresses(nb) :
                            /\ x.fam = entry.anycast.fam
                            /\ x.ip = entry.anycast.ip
                            /\ SameSubnet(x, r)
                   /\ \A g \in FhrpAddresses(nb) :
                        (Cardinality(FhrpAddresses(nb)) = 1 /\ SameSubnet(g.address, r))
                        => /\ "vrrp" \in DOMAIN entry
                           /\ entry.vrrp = ([fam |-> g.address.fam, ip |-> g.address.ip]
                                              :> g.group_id)

\* C10 witness: 10.0.0.1/24 carries the anycast address 10.0.0.200 and the
\* address 10.0.0.254 of group 5, 10.1.0.1/24 carries the address 10.1.0.254
\* of group 7 only.
C10_Witness ==
    /\ Len(trees) > 0
    /\ \E node \in NodesOf(trees[1].tree, snapshot.interfaces[Len(snapshot.interfaces)]) :
          /\ "ips" \in DOMAIN node
          /\ DOMAIN node.ips[4] = {ipv4(10, 0, 0, 1, 24), ipv4(10, 1, 0, 1, 24)}
          /\ node.ips[4][ipv4(10, 0, 0, 1, 24)] =
                [vrrp |-> ([fam |-> 4, ip |-> 167772414] :> 5),
                 anycast |-> [fam |-> 4, ip |-> 167772360]]
          /\ node.ips[4][ipv4(10, 1, 0, 1, 24)] =
                [vrrp |-> ([fam |-> 4, ip |-> 167837950] :> 7)]

\* The addresses Netbox holds for interface nb, of family fam.
AddressesOf(nb, fam) ==
    {snapshot.ip_addresses[i] :
        i \in {j \in 1..Len(snapshot.ip_addresses) :
                 /\ snapshot.ip_addresses[j].assigned_object.name = nb.name
                 /\ snapshot.ip_addresses[j].address.fam = fam}}

\* The anycast addresses of nb that are treated as virtual: those of a family
\* in which nb has several addresses.
VirtualAnycast(nb) ==
    {x \in AnycastAddresses(nb) : Cardinality(AddressesOf(nb, x.fam)) > 1}

\* The virtual addresses recorded under the entry of a real address.
RecordedUnder(entry) ==
    (IF "vrrp" \in DOMAIN entry THEN DOMAIN entry.vrrp ELSE {})
    \cup (IF "anycast" \in DOMAIN entry THEN {entry.anycast} ELSE {})

\* C11: every virtual address of an interface (address of an assigned FHRP
\* group, anycast address treated as virtual) that lies in the network of a
\* real address of the interface is recorded under that real address.
C11_NoVirtualLost ==
    \A a \in 1..Len(trees) : \A i \in 1..Len(snapshot.interfaces) :
        \A node \in NodesOf(trees[a].tree, snapshot.interfaces[i]) :
            "ips" \in DOMAIN node =>
            \A fam \in {4, 6} : \A r \in DOMAIN node.ips[fam] :
                LET nb == snapshot.interfaces[i]
                    recorded == RecordedUnder(node.ips[fam][r])
                IN /\ \A g \in FhrpAddresses(nb) :
                        SameSubnet(g.address, r)
                        => [fam |-> g.address.fam, ip |-> g.address.ip] \in recorded
                   /\ \A x \in VirtualAnycast(nb) :
                        SameSubnet(x, r) => [fam |-> x.fam, ip |-> x.ip] \in recorded

\* C12: a virtual address is recorded under one real address only, the one
\* with the longest prefix among the real addresses of the interface whose
\* network contains it.
C12_SmallestNetwork ==
    \A a \in 1..Len(trees) : \A i \in 1..Len(snapshot.interfaces) :
        \A node \in NodesOf(trees[a].tree, snapshot.interfaces[i]) :
            "ips" \in DOMAIN node =>
            \A fam \in {4, 6} : \A r \in DOMAIN node.ips[fam] :
                \A v \in RecordedUnder(node.ips[fam][r]) :
                    \A r2 \in DOMAIN node.ips[fam] :
                        (r2 # r /\ SameSubnet(v, r2))
                        => /\ r2.plen < r.plen
                           /\ v \notin RecordedUnder(node.ips[fam][r2])

\* C13: the anycast marker is per family. A family whose only address is
\* anycast keeps it as real address and is marked "single"; in a family with
\* several addresses the anycast one is no real address, is recorded as
\* 'anycast' under the real addresses whose network contains it, and the
\* family is marked "vga"; the other family does not change the marker.
C13_AnycastPerFamily ==
    \A a \in 1..Len(trees) : \A i \in 1..Len(snapshot.interfaces) :
        \A node \in NodesOf(trees[a].tree, snapshot.interfaces[i]) :
            "ips" \in DOMAIN node =>
            \A fam \in {4, 6} : \A x \in AddressesOf(snapshot.interfaces[i], fam) :
                x.role = anycast =>
                IF Cardinality(AddressesOf(snapshot.interfaces[i], fam)) = 1
                THEN /\ x.address \in DOMAIN node.ips[fam]
                     /\ "anycast_gw" \in DOMAIN node
                     /\ node.anycast_gw = "single"
                ELSE /\ x.address \notin DOMAIN node.ips[fam]
                     /\ \A r \in DOMAIN node.ips[fam] :
                           SameSubnet(x.address, r)
                           => /\ "anycast" \in DOMAIN node.ips[fam][r]
                              /\ node.ips[fam][r].anycast.ip = x.address.ip
                     /\ "anycast_gw" \in DOMAIN node
                     /\ node.anycast_gw = "vga"

-----------------------------------------------------------------------------
\* The aggregates (SpecLag): ae0 and its three members, listed in any order.

M_mac == <<"0", "0", ":", "a", "a">>

\* The permutations of 1..n.
Orders(n) == {f \in [1..n -> 1..n] : \A i, j \in 1..n : f[i] = f[j] => i = j}

\* What the three members are connected to: nothing, a core router, or a
\* transit circuit.
MemberLinks ==
    LET none == no_cable
        core == link(L_C123, "dcim.interface", <<far_int(Dev_cr1)>>,
                     "dcim.interface", <<far_int(Dev_cr1)>>)
        transit == link(L_C123, "circuits.circuittermination",
                        <<circuit_termination(circuit(1, S_Transit, <<>>, 0))>>, "", <<>>)
    IN {<<none, none, none>>, <<core, none, none>>, <<none, core, transit>>,
        <<transit, core, none>>, <<none, none, transit>>}

\* The names of the three members: two kinds, or one.
MemberNames == {<<N_xe1, N_xe2, N_et3>>, <<N_xe1, N_xe2, N_xe4>>}

\* The aggregate: without cable, or on a transport circuit.
LagLinks ==
    {no_cable,
     link(L_C123, "circuits.circuittermination",
          <<circuit_termination(circuit(2, S_Transport, C_desc, 0))>>, "", <<>>)}

\* The first member has in Netbox every attribute an interface can have.
lag_member(id, name, l) ==
    Update([nb_int(id, name) EXCEPT !.lag = <<[name |-> N_ae0]>>], l)

lag_member_full(id, name, l) ==
    [lag_member(id, name, l) EXCEPT
        !.mtu = 9192, !.mac_address = M_mac,
        !.vrf = <<[name |-> T_trunk, rd |-> 7]>>,
        !.mode = <<[value |-> "access"]>>,
        !.untagged_vlan = <<[name |-> S_default, vid |-> 1]>>,
        !.count_ipaddresses = 1]

LagRecords(names, links, l) ==
    <<lag_member_full(1, names[1], links[1]), lag_member(2, names[2], links[2]),
      lag_member(3, names[3], links[3]), Update(nb_lag(4, N_ae0), l)>>

LagInventories ==
    {inventory("cr",
               [k \in 1..4 |-> LagRecords(names, links, l)[f[k]]],
               <<ip_address(ipv4(10, 0, 0, 1, 24), <<>>, 1, names[1])>>, <<>>, <<>>) :
        names \in MemberNames, links \in MemberLinks, l \in LagLinks,
        f \in Orders(4)}

InitLag ==
    /\ InitInstance
    /\ snapshot \in LagInventories
    /\ ret = [op |-> "__init__", raised |-> ""]

NextLag == GetJunosInterfaces \/ GetQosInterfaces

SpecLag == InitLag /\ [][NextLag]_vars

-----------------------------------------------------------------------------
\* Properties of the aggregates (SpecLag).

\* The members of aggregate `lag`, in the order of the list `order`.
MembersOf(lag, order) ==
    SelectSeq(order, LAMBDA n :
        \E i \in 1..Len(snapshot.interfaces) :
            /\ snapshot.interfaces[i].name = n
            /\ snapshot.interfaces[i].lag = <<[name |-> lag]>>)

\* The kind of an interface, the letters before the '-' of its name: the
\* inventory has the kinds "xe" and "et".
KindOf(name) == SubSeq(name, 1, 2)

Aggregates == {i \in 1..Len(snapshot.interfaces) : snapshot.interfaces[i].type.value = "lag"}

\* C14: the node of an aggregate carries mixed = TRUE exactly when its members
\* are of more than one kind; no member carries the flag, in whatever order
\* the members and the aggregate are listed.
C14_MixedFlag ==
    \A a \in 1..Len(trees) : \A i \in Aggregates :
        LET lag == snapshot.interfaces[i].name
            members == MembersOf(lag, trees[a].order)
            tree == trees[a].tree
        IN /\ ("mixed" \in DOMAIN tree[lag])
              = (\E m, n \in 1..Len(members) : KindOf(members[m]) # KindOf(members[n]))
           /\ "mixed" \in DOMAIN tree[lag] => tree[lag].mixed = TRUE
           /\ \A m \in 1..Len(members) : "mixed" \notin DOMAIN tree[members[m]]

\* A tree of two 10G members and one 25G member, the aggregate listed between
\* them, carries the flag; a tree for three 10G members exists too.
C14_Witness ==
    \E a \in 1..Len(trees) :
        /\ trees[a].order[2] = N_ae0
        /\ N_et3 \in DOMAIN trees[a].tree
        /\ "mixed" \in DOMAIN trees[a].tree[N_ae0]

\* C15: a member's node has none of mtu, mac, vrf, mode, vlans and addresses,
\* whatever Netbox holds for it. An aggregate without link type of its own
\* takes the link type of the first member, in the order of the inventory,
\* that has one; an aggregate with a link type of its own keeps it.
C15_MemberAndLinkType ==
    \A a \in 1..Len(trees) : \A i \in Aggregates :
        LET nb == snapshot.interfaces[i]
            members == MembersOf(nb.name, trees[a].order)
            tree == trees[a].tree
            has == {m \in 1..Len(members) : tree[members[m]].link_type # <<>>}
        IN /\ \A m \in 1..Len(members) :
                DOMAIN tree[members[m]]
                \cap {"mtu", "mac", "vrf", "mode", "vlans", "native_vlan_id", "ips"} = {}
           /\ IF nb.cable # <<>>
              THEN tree[nb.name].link_type = nb.link_peers[1].circuit.type.name
              ELSE IF has = {} THEN tree[nb.name].link_type = <<>>
              ELSE \E m \in has :
                      /\ \A n \in has : m <= n
                      /\ tree[nb.name].link_type = tree[members[m]].link_type

\* An aggregate without cable took "Transit" from its second member, the
\* first has no link type and the third is on a core link; the member that
\* has mtu, mac, vrf, mode, VLAN and address in Netbox is in the tree.
C15_Witness ==
    \E a \in 1..Len(trees) : \E i \in Aggregates :
        LET members == MembersOf(N_ae0, trees[a].order)
            tree == trees[a].tree
        IN /\ snapshot.interfaces[i].cable = <<>>
           /\ tree[members[1]].link_type = <<>>
           /\ tree[members[2]].link_type = S_Transit
           /\ tree[members[3]].link_type = S_Core
           /\ tree[N_ae0].link_type = S_Transit
           /\ N_xe1 \in DOMAIN tree

-----------------------------------------------------------------------------
\* The tunnel interfaces (SpecTunnel): gr-0/0/0.1, alone or after its parent
\* gr-0/0/0, either of them with or without a cable, and the terminations of
\* tunnel 1.

TunnelCables ==
    {no_cable,
     link(L_C123, "dcim.interface", <<far_int(Dev_cr1)>>,
          "dcim.interface", <<far_int(Dev_cr1)>>),
     link(L_C123, "circuits.circuittermination",
          <<circuit_termination(circuit(2, S_Transport, C_desc, 500))>>,
          "dcim.interface", <<far_int(Dev_sw2)>>),
     link(L_C123, "dcim.frontport",
          <<front_port(<<rear_port("dcim.interface", <<far_int(Dev_sw2)>>)>>)>>,
          "dcim.interface", <<far_int(Dev_sw2)>>)}

\* The terminations of the tunnel: none, the local one alone (spoke, hub or
\* peer), the local one and a far one.
TunnelTerminations(id) ==
    {<<>>,
     <<tunnel_termination(1, id, "spoke", D_local, N_gr0u1)>>,
     <<tunnel_termination(1, id, "hub", D_local, N_gr0u1)>>,
     <<tunnel_termination(1, id, "peer", D_local, N_gr0u1)>>,
     <<tunnel_termination(1, id, "spoke", D_local, N_gr0u1),
       tunnel_termination(2, 9, "hub", D_sw2, I_ge5)>>,
     <<tunnel_termination(1, id, "hub", D_local, N_gr0u1),
       tunnel_termination(2, 9, "spoke", D_sw2, I_ge5)>>,
     <<tunnel_termination(1, id, "peer", D_local, N_gr0u1),
       tunnel_termination(2, 9, "peer", D_sw2, I_ge5)>>}

TunnelInventories ==
    {inventory("cr",
               <<Update([nb_int(1, N_gr0u1) EXCEPT !.type = [value |-> "virtual"],
                                                   !.enabled = en], l)>>,
               <<>>, <<>>, t) :
        en \in BOOLEAN, l \in TunnelCables, t \in TunnelTerminations(1)}
    \cup {inventory("cr",
                    <<Update([nb_int(1, N_gr0) EXCEPT !.type = [value |-> "virtual"]], l),
                      [nb_int(2, N_gr0u1) EXCEPT !.type = [value |-> "virtual"],
                                                 !.description = de]>>,
                    <<>>, <<>>, t) :
            l \in TunnelCables, de \in Descriptions, t \in TunnelTerminations(2)}

InitTunnel ==
    /\ InitInstance
    /\ snapshot \in TunnelInventories
    /\ ret = [op |-> "start"]

NextTunnel ==
    \/ \E i \in 1..Len(QueryInterfaces(snapshot)) : LinkData(i)
    \/ Description

SpecTunnel == InitTunnel /\ [][NextTunnel]_vars

-----------------------------------------------------------------------------
\* Properties of the tunnel interfaces (SpecTunnel).

\* The terminations of the interface, and the other terminations.
OwnTerminations(nb) ==
    {snapshot.tunnel_terminations[i] :
        i \in {j \in 1..Len(snapshot.tunnel_terminations) :
                 snapshot.tunnel_terminations[j].termination_id = nb.id}}

FarTerminations(nb) ==
    {snapshot.tunnel_terminations[i] :
        i \in {j \in 1..Len(snapshot.tunnel_terminations) :
                 snapshot.tunnel_terminations[j].termination_id # nb.id}}

\* The link data holds nothing that comes from a cable.
NoCableData(ld) ==
    /\ DOMAIN ld \cap {"cable_label", "provider"} = {}
    /\ ld.circuit_id = <<>>
    /\ ld.circuit_desc = <<>>
    /\ ld.upstream_speed = 0

\* C16: for an enabled gr- interface _get_link_data returns link data without
\* cable label, circuit or provider, whatever cable the interface or its
\* parent has; a termination with role hub or spoke gives "Transit-tun" and a
\* far end that is not managed; a two-sided tunnel of peers gives
\* "Transport-tun" with the device and the interface of the far termination.
C16_TunnelLinkClass ==
    (LinkReturned /\ ret.nb_int.enabled /\ IsTunnelName(ret.nb_int)) =>
        /\ ret.raised = "" => NoCableData(ret.value)
        /\ \A t \in OwnTerminations(ret.nb_int) :
              /\ t.role.value \in {"hub", "spoke"}
                 => /\ ret.raised = ""
                    /\ ret.value.link_type = S_TransitTun
                    /\ ret.value.wmf_z_end = FALSE
              /\ t.role.value = "peer"
                 => \A f \in FarTerminations(ret.nb_int) :
                       /\ ret.raised = ""
                       /\ ret.value.link_type = S_TransportTun
                       /\ ret.value.z_dev = f.termination.device.name
                       /\ ret.value.z_int = f.termination.name

-----------------------------------------------------------------------------
\* The QoS map of a core router (SpecQos): xe-0/1 with anything connected,
\* enabled or not, member of ae0 or not, with up to two units; an interface
\* with an excluded name on a core link; the tunnel interface gr-0/0/0 with
\* its unit 1; the aggregate ae0.

QosLinks ==
    {no_cable,
     link(L_C123, "dcim.interface", <<far_int(Dev_cr1)>>,
          "dcim.interface", <<far_int(Dev_cr1)>>),
     link(L_C123, "dcim.interface", <<far_int(Dev_srv)>>,
          "dcim.interface", <<far_int(Dev_srv)>>),
     link(L_C123, "circuits.circuittermination",
          <<circuit_termination(circuit(2, S_Transport, C_desc, 0))>>,
          "dcim.interface", <<far_int(Dev_cr1)>>),
     link(L_C123, "circuits.circuittermination",
          <<circuit_termination(circuit(2, S_Transit, <<>>, 500))>>,
          "circuits.providernetwork", <<[name |-> P_Telia]>>)}

QosUnits ==
    {<<>>, <<nb_int(2, N_xe1u0)>>, <<nb_int(2, N_xe1u0), nb_int(3, N_xe1u5)>>}

QosTunnels ==
    {<<>>,
     <<tunnel_termination(1, 6, "spoke", D_local, N_gr0u1)>>,
     <<tunnel_termination(1, 6, "peer", D_local, N_gr0u1),
       tunnel_termination(2, 9, "peer", D_sw2, I_ge5)>>}

QosInventories ==
    {inventory("cr",
               <<Update([nb_int(1, N_xe1) EXCEPT !.enabled = en, !.lag = lag], l)>>
               \o units
               \o <<Update(nb_int(4, excluded),
                           link(L_C123, "dcim.interface", <<far_int(Dev_cr1)>>,
                                "dcim.interface", <<far_int(Dev_cr1)>>)),
                    [nb_int(5, N_gr0) EXCEPT !.type = [value |-> "virtual"]],
                    [nb_int(6, N_gr0u1) EXCEPT !.type = [value |-> "virtual"]],
                    nb_lag(7, N_ae0)>>,
               <<>>, <<>>, t) :
        en \in BOOLEAN, lag \in {<<>>, <<[name |-> N_ae0]>>}, l \in QosLinks,
        units \in QosUnits, excluded \in {N_lo0, N_em0}, t \in QosTunnels}

InitQos ==
    /\ InitInstance
    /\ snapshot \in QosInventories
    /\ ret = [op |-> "__init__", raised |-> ""]

NextQos == GetQosInterfaces \/ GetJunosInterfaces

SpecQos == InitQos /\ [][NextQos]_vars

-----------------------------------------------------------------------------
\* Properties of the QoS map (SpecQos).

\* _get_qos_interfaces has just returned: qos_interfaces is the map it built
\* from the tree junos_interfaces.
QosReturned == ret.op = "_get_qos_interfaces" /\ ret.raised = ""

ExcludedName(n) ==
    \/ SubSeq(n, 1, 2) \in {<<"l", "o">>, <<"e", "m">>}
    \/ SubSeq(n, 1, 3) \in {<<"i", "r", "b">>, <<"f", "x", "p">>, <<"v", "m", "e">>}

\* The units of node n of the tree: its sub-interfaces, or unit 0.
UnitsOf(node) == IF "sub" \in DOMAIN node THEN DOMAIN node.sub ELSE {0}

\* The units that are to have the dual-stack classifier.
DualUnits(n, node) ==
    IF node.link_type \in {S_Core, S_Transport} THEN UnitsOf(node)
    ELSE IF SubSeq(n, 1, 3) = <<"g", "r", "-">>
    THEN {u \in UnitsOf(node) : node.sub[u].link_type = S_TransportTun}
    ELSE {}

\* C17: on a cr the units with the dual-stack classifier are exactly the units
\* of the enabled interfaces, not excluded by name and not LAG members, whose
\* link type is "Core" or "Transport", and the units of gr- interfaces whose
\* own link type is "Transport-tun"; nothing else has a classifier; excluded
\* names and LAG members have no entry.
C17_DualStackUnits ==
    (QosReturned /\ snapshot.role.slug = "cr") =>
        \A n \in DOMAIN junos_interfaces :
            LET node == junos_interfaces[n]
            IN IF ExcludedName(n) \/ "lag" \in DOMAIN node \/ ~node.enabled
               THEN n \notin DOMAIN qos_interfaces
               ELSE /\ n \in DOMAIN qos_interfaces
                    /\ DOMAIN qos_interfaces[n]
                       \cap {"dscp_classifier", "dscp_ip6_classifier"} = {}
                    /\ DOMAIN qos_interfaces[n].units = DualUnits(n, node)
                    /\ \A u \in DOMAIN qos_interfaces[n].units :
                          qos_interfaces[n].units[u]
                          = [dscp_classifier |-> TRUE, dscp_ip6_classifier |-> TRUE]

\* The map of a router whose xe-0/1 is on a transport circuit and has two
\* units, whose tunnel unit is "Transport-tun" and whose em0 is on a core link.
C17_Witness ==
    /\ QosReturned
    /\ N_em0 \in DOMAIN junos_interfaces
    /\ junos_interfaces[N_em0].link_type = S_Core
    /\ N_em0 \notin DOMAIN qos_interfaces
    /\ N_xe1 \in DOMAIN qos_interfaces
    /\ junos_interfaces[N_xe1].link_type = S_Transport
    /\ Cardinality(DOMAIN qos_interfaces[N_xe1].units) = 2
    /\ Cardinality(DOMAIN qos_interfaces[N_gr0].units) = 1
    /\ DOMAIN qos_interfaces[N_ae0].units = {}

-----------------------------------------------------------------------------
\* The BGP servers: normalize_bgp_neighbor, legacy_vlan_name,
\* fetch_bgp_servers_l2 and _get_bgp_servers.

L3_SWITCHES_MODELS == {"qfx5120-48y-afi", "qfx5120-48y-afi2"}

HOSTNAMES_TO_GROUPS ==
    (<<"a", "u", "x", "-", "k", "8", "s", "-", "c", "t", "r", "l">>
        :> [group |-> "k8s_aux"])  \* aux-k8s-ctrl
    @@
    (<<"a", "u", "x", "-", "k", "8", "s", "-", "w", "o", "r", "k", "e", "r">>
        :> [group |-> "k8s_aux"])  \* aux-k8s-worker
    @@
    (<<"c", "e", "n", "t", "r", "a", "l", "l", "o", "g">>
        :> [group |-> "anycast", ipv4_only |-> TRUE])  \* centrallog
    @@
    (<<"c", "e", "p", "h", "o", "s", "d">>
        :> [group |-> "anycast"])  \* cephosd
    @@
    (<<"d", "n", "s">>
        :> [group |-> "anycast", ipv4_only |-> TRUE])  \* dns
    @@
    (<<"d", "o", "h">>
        :> [group |-> "anycast"])  \* doh
    @@
    (<<"d", "s", "e", "-", "k", "8", "s", "-", "w", "o", "r", "k", "e", "r">>
        :> [group |-> "k8s_dse"])  \* dse-k8s-worker
    @@
    (<<"d", "s", "e", "-", "k", "8", "s", "-", "c", "t", "r", "l">>
        :> [group |-> "k8s_dse"])  \* dse-k8s-ctrl
    @@
    (<<"d", "u", "r", "u", "m">>
        :> [group |-> "anycast"])  \* durum
    @@
    (<<"g", "a", "n", "e", "t", "i">>
        :> [group |-> "ganeti"])  \* ganeti
    @@
    (<<"k", "u", "b", "e", "m", "a", "s", "t", "e", "r">>
        :> [group |-> "k8s"])  \* kubemaster
    @@
    (<<"k", "u", "b", "e", "r", "n", "e", "t", "e", "s">>
        :> [group |-> "k8s"])  \* kubernetes
    @@
    (<<"k", "u", "b", "e", "s", "t", "a", "g", "e">>
        :> [group |-> "k8s_stage"])  \* kubestage
    @@
    (<<"k", "u", "b", "e", "s", "t", "a", "g", "e", "m", "a", "s", "t", "e", "r">>
        :> [group |-> "k8s_stage"])  \* kubestagemaster
    @@
    (<<"l", "v", "s">>
        :> [group |-> "pybal", ipv4_only |-> TRUE])  \* lvs
    @@
    (<<"m", "l", "-", "s", "e", "r", "v", "e">>
        :> [group |-> "k8s_mlserve"])  \* ml-serve
    @@
    (<<"m", "l", "-", "s", "e", "r", "v", "e", "-", "c", "t", "r", "l">>
        :> [group |-> "k8s_mlserve"])  \* ml-serve-ctrl
    @@
    (<<"m", "l", "-", "s", "t", "a", "g", "i", "n", "g", "-", "c", "t", "r", "l">>
        :> [group |-> "k8s_mlstaging"])  \* ml-staging-ctrl
    @@
    (<<"m", "l", "-", "s", "t", "a", "g", "i", "n", "g">>
        :> [group |-> "k8s_mlstaging"])  \* ml-staging
    @@
    (<<"m", "w">>
        :> [group |-> "k8s"])  \* mw
    @@
    (<<"p", "a", "r", "s", "e">>
        :> [group |-> "k8s"])  \* parse
    @@
    (<<"w", "i", "k", "i", "k", "u", "b", "e", "-", "c", "t", "r", "l">>
        :> [group |-> "k8s"])  \* wikikube-ctrl
    @@
    (<<"w", "i", "k", "i", "k", "u", "b", "e", "-", "w", "o", "r", "k", "e", "r">>
        :> [group |-> "k8s"])  \* wikikube-worker

IsDigit(c) == c \in {"0", "1", "2", "3", "4", "5", "6", "7", "8", "9"}

\* subn(r'\d{4}', '', s): every run of four digits, found from the left, is
\* removed; [value, count].
RECURSIVE subn_loop(_, _, _)
subn_loop(s, out, count) ==
    IF s = <<>> THEN [value |-> out, count |-> count]
    ELSE IF Len(s) >= 4 /\ \A i \in 1..4 : IsDigit(s[i])
    THEN subn_loop(SubSeq(s, 5, Len(s)), out, count + 1)
    ELSE subn_loop(Tail(s), Append(out, Head(s)), count)

subn(s) == subn_loop(s, <<>>, 0)

\* The lookup that gives every prefix a group.
hostname_group_any(server_prefix) ==
    IF server_prefix \in DOMAIN HOSTNAMES_TO_GROUPS
    THEN Ok(HOSTNAMES_TO_GROUPS[server_prefix].group)
    ELSE Ok("k8s")

\* HOSTNAMES_TO_GROUPS[server_prefix]['group']
hostname_group(server_prefix) ==
    IF server_prefix \in DOMAIN HOSTNAMES_TO_GROUPS
    THEN Ok(HOSTNAMES_TO_GROUPS[server_prefix].group)
    ELSE Raise("KeyError")

\* logger.error(...): the records appended to the log
log_error(message, name) == <<[level |-> "error", message |-> message, name |-> name]>>

\* The addresses of a neighbor: {4: ..., 6: ...}
bgp_neighbor_addresses(server, ipv4_only) ==
    LET v4 == IF server.primary_ip4 # <<>>
              THEN (4 :> ip_of(server.primary_ip4[1])) ELSE <<>>
    IN IF server.primary_ip6 # <<>> /\ ~ipv4_only
       THEN Put(v4, 6, ip_of(server.primary_ip6[1])) ELSE v4

\* The end of normalize_bgp_neighbor, the group being known.
bgp_neighbor_of(server, server_prefix, bgp_group) ==
    [group |-> bgp_group, name |-> server.name,
     ip_addresses |->
        bgp_neighbor_addresses(server,
            IF "ipv4_only" \in DOMAIN HOSTNAMES_TO_GROUPS[server_prefix]
            THEN HOSTNAMES_TO_GROUPS[server_prefix].ipv4_only ELSE FALSE)]

\* try ... except KeyError around the lookup
bgp_neighbor_group(server, server_prefix, found) ==
    IF found.raised = "KeyError"
    THEN Ok(<<>>) @@ [log |-> log_error("No BGP group found", server.name)]
    ELSE Ok(bgp_neighbor_of(server, server_prefix, found.value)) @@ [log |-> <<>>]

bgp_neighbor_prefix(server, stripped) ==
    IF stripped.count = 0
    THEN Ok(<<>>) @@ [log |-> log_error("Can't extract the server prefix", server.name)]
    ELSE bgp_neighbor_group(server, stripped.value, hostname_group(stripped.value))

\* normalize_bgp_neighbor(server): [raised, value, log]; {} is <<>>
normalize_bgp_neighbor(server) ==
    IF server.status.value # "active" THEN Ok(<<>>) @@ [log |-> <<>>]
    ELSE IF ~server.custom_fields.bgp THEN Ok(<<>>) @@ [log |-> <<>>]
    ELSE bgp_neighbor_prefix(server, subn(server.name))

\* s.count(c)
CountChar(s, c) == Cardinality({i \in 1..Len(s) : s[i] = c})

\* legacy_vlan_name that takes no name for row-wide.
legacy_vlan_name_never(vlan_name) == Len(vlan_name) < 0

\* legacy_vlan_name(vlan_name): split_name = vlan_name.split('-')
legacy_vlan_name(vlan_name) ==
    \/ CountChar(vlan_name, "-") + 1 < 3
    \/ Len(SplitHead(SplitRest(vlan_name, "-"), "-")) = 1

\* virtualization.virtual_machines.filter(status, role, cf_bgp[, site])
QueryBgpVms(snap, site) ==
    SelectSeq(snap.virtual_machines,
              LAMBDA m : /\ m.status.value = "active"
                         /\ m.role.slug = "server"
                         /\ m.custom_fields.bgp
                         /\ site # "" => m.site.slug = site)

\* dcim.devices.filter(status, role, cf_bgp[, site])
QueryBgpDevices(snap, site) ==
    SelectSeq(snap.devices,
              LAMBDA d : /\ d.status.value = "active"
                         /\ d.role.slug = "server"
                         /\ d.custom_fields.bgp
                         /\ site # "" => d.site.slug = site)

\* dcim.devices.filter(cluster_id=id)
QueryClusterDevices(snap, id) ==
    SelectSeq(snap.devices, LAMBDA d : d.cluster # <<>> /\ d.cluster[1].id = id)

\* virtualization.virtual_machines.filter(cluster_id=id, cf_bgp=True)
QueryClusterVms(snap, id) ==
    SelectSeq(snap.virtual_machines,
              LAMBDA m : m.cluster[1].id = id /\ m.custom_fields.bgp)

\* "switchport.device.virtual_chassis or self.legacy_vlan_name(
\* switchport.untagged_vlan.name)": [raised, value]; untagged_vlan may be None
switchport_included(switchport) ==
    IF switchport.device.virtual_chassis # <<>> THEN Ok(TRUE)
    ELSE IF switchport.untagged_vlan = <<>> THEN Raise("AttributeError")
    ELSE Ok(legacy_vlan_name(switchport.untagged_vlan[1].name))

\* port.connected_endpoints[0], for a port that may be None and whose
\* connected_endpoints are None when it is not connected
first_endpoint(port) ==
    IF port = <<>> THEN Raise("AttributeError")
    ELSE IF port[1].connected_endpoints = <<>> THEN Raise("TypeError")
    ELSE switchport_included(port[1].connected_endpoints[1])

\* The try block for one hypervisor: the bridge of its primary address, its
\* uplink, the switch port.
hypervisor_included(hypervisor) ==
    IF hypervisor.primary_ip = <<>> THEN Raise("AttributeError")
    ELSE IF hypervisor.primary_ip[1].assigned_object = <<>> THEN Raise("AttributeError")
    ELSE first_endpoint(hypervisor.uplink)

\* The loop over the hypervisors of one VM: AttributeError goes on with the
\* next, anything else ends the loop.
RECURSIVE hypervisors_loop(_)
hypervisors_loop(hypervisors) ==
    IF hypervisors = <<>> THEN Ok(FALSE)
    ELSE IF hypervisor_included(Head(hypervisors)).raised = "AttributeError"
    THEN hypervisors_loop(Tail(hypervisors))
    ELSE hypervisor_included(Head(hypervisors))

\* The loop over the VMs: st = [servers, raised].
RECURSIVE bgp_vms_loop(_, _, _)
bgp_vms_loop(vms, snap, st) ==
    IF vms = <<>> \/ st.raised # "" THEN st
    ELSE bgp_vms_loop(Tail(vms), snap,
             LET r == hypervisors_loop(QueryClusterDevices(snap, Head(vms).cluster[1].id))
             IN IF r.raised # "" THEN [st EXCEPT !.raised = r.raised]
                ELSE IF r.value THEN [st EXCEPT !.servers = Append(@, Head(vms))]
                ELSE st)

\* The try block for one device.
device_included(bgp_device) ==
    IF bgp_device.primary_ip = <<>> THEN Raise("AttributeError")
    ELSE first_endpoint(bgp_device.primary_ip[1].assigned_object)

\* The loop over the devices.
RECURSIVE bgp_devices_loop(_, _)
bgp_devices_loop(devices, st) ==
    IF devices = <<>> \/ st.raised # "" THEN st
    ELSE bgp_devices_loop(Tail(devices),
             LET r == device_included(Head(devices))
             IN IF r.raised = "AttributeError" THEN st
                ELSE IF r.raised # "" THEN [st EXCEPT !.raised = r.raised]
                ELSE IF r.value THEN [st EXCEPT !.servers = Append(@, Head(devices))]
                ELSE st)

\* The end of fetch_bgp_servers_l2: what was appended stays in the cache,
\* also when the method raises.
bgp_servers_store(self, st) ==
    [self |-> [self EXCEPT !.bgp_servers = st.servers]]
    @@ (IF st.raised # "" THEN Raise(st.raised) ELSE Ok(st.servers))

\* fetch_bgp_servers_l2(site): [self, raised, value]
fetch_bgp_servers_l2(self, snap, site) ==
    IF self.bgp_servers # <<>>
    THEN [self |-> self] @@ Ok(self.bgp_servers)
    ELSE bgp_servers_store(self,
             bgp_devices_loop(QueryBgpDevices(snap, site),
                 bgp_vms_loop(QueryBgpVms(snap, site), snap,
                              [servers |-> <<>>, raised |-> ""])))

\* "neighbor = self.normalize_bgp_neighbor(x); if neighbor:
\* bgp_neighbors[group][name] = ip_addresses", on st = [neighbors, clusters, log]
bgp_add(st, neighbor) ==
    IF DOMAIN neighbor.value = {}
    THEN [st EXCEPT !.log = @ \o neighbor.log]
    ELSE [st EXCEPT
            !.log = @ \o neighbor.log,
            !.neighbors =
                Put(@, neighbor.value.group,
                    Put(IF neighbor.value.group \in DOMAIN @
                        THEN @[neighbor.value.group] ELSE <<>>,
                        neighbor.value.name, neighbor.value.ip_addresses))]

RECURSIVE bgp_add_all(_, _)
bgp_add_all(servers, st) ==
    IF servers = <<>> THEN st
    ELSE bgp_add_all(Tail(servers), bgp_add(st, normalize_bgp_neighbor(Head(servers))))

\* The VMs of the cluster of a Ganeti host, when its hypervisors are in one
\* rack.
bgp_cluster_vms(st, snap, id) ==
    IF Cardinality({QueryClusterDevices(snap, id)[h].rack :
                      h \in 1..Len(QueryClusterDevices(snap, id))}) = 1
    THEN bgp_add_all(QueryClusterVms(snap, id), st)
    ELSE st

\* "if z_device.cluster and z_device.cluster not in ganeti_clusters"
bgp_cluster(st, snap, z_device) ==
    IF z_device.cluster # <<>> /\ z_device.cluster[1].id \notin st.clusters
    THEN bgp_cluster_vms([st EXCEPT !.clusters = @ \cup {z_device.cluster[1].id}],
                         snap, z_device.cluster[1].id)
    ELSE st

\* The try block of the loop over the interfaces.
bgp_far_end(st, snap, z_device) ==
    IF z_device.rack # snap.rack THEN st
    ELSE bgp_add(bgp_cluster(st, snap, z_device), normalize_bgp_neighbor(z_device))

\* One turn of the loop over the interfaces of an L3 switch.
bgp_interface(st, snap, interface) ==
    IF interface.connected_endpoints_type # "dcim.interface" THEN st
    ELSE IF interface.untagged_vlan = <<>> THEN st
    ELSE IF legacy_vlan_name(interface.untagged_vlan[1].name) THEN st
    ELSE bgp_far_end(st, snap, interface.connected_endpoints[1].device)

RECURSIVE bgp_interfaces_loop(_, _, _)
bgp_interfaces_loop(ints, snap, st) ==
    IF ints = <<>> THEN st
    ELSE bgp_interfaces_loop(Tail(ints), snap, bgp_interface(st, snap, Head(ints)))

bgp_start == [neighbors |-> <<>>, clusters |-> {}, log |-> <<>>]

\* The branch of the L3 switches.
bgp_servers_switch(fetched, snap) ==
    LET st == bgp_interfaces_loop(fetched.value, snap, bgp_start)
    IN [self |-> fetched.self, log |-> st.log] @@ Ok(st.neighbors)

\* The branch of the core routers.
bgp_servers_router(fetched) ==
    IF fetched.raised # ""
    THEN [self |-> fetched.self, log |-> <<>>] @@ Raise(fetched.raised)
    ELSE LET st == bgp_add_all(fetched.value, bgp_start)
         IN [self |-> fetched.self, log |-> st.log] @@ Ok(st.neighbors)

\* _get_bgp_servers(): [self, raised, value, log]
get_bgp_servers(self, snap) ==
    IF snap.role.slug \in SWITCHES_ROLES /\ snap.device_type.slug \in L3_SWITCHES_MODELS
    THEN bgp_servers_switch(fetch_device_interfaces(self, snap), snap)
    ELSE IF snap.role.slug = "cr"
    THEN bgp_servers_router(fetch_bgp_servers_l2(self, snap, snap.site.slug))
    ELSE [self |-> self, log |-> <<>>] @@ Ok(<<>>)

-----------------------------------------------------------------------------
\* The servers and virtual machines of site eqiad (SpecBgp).

H_mw1001 == <<"m", "w", "1", "0", "0", "1">>  \* "mw1001"
H_lvs1002 == <<"l", "v", "s", "1", "0", "0", "2">>  \* "lvs1002"
H_randomhost42 == <<"r", "a", "n", "d", "o", "m", "h", "o", "s", "t", "4", "2">>  \* "randomhost42"
H_randomhost1001 == <<"r", "a", "n", "d", "o", "m", "h", "o", "s", "t", "1", "0", "0", "1">>  \* "randomhost1001"
H_ganeti1001 == <<"g", "a", "n", "e", "t", "i", "1", "0", "0", "1">>  \* "ganeti1001"
H_ganeti1002 == <<"g", "a", "n", "e", "t", "i", "1", "0", "0", "2">>  \* "ganeti1002"
H_doh1001 == <<"d", "o", "h", "1", "0", "0", "1">>  \* "doh1001"
H_randomvm1001 == <<"r", "a", "n", "d", "o", "m", "v", "m", "1", "0", "0", "1">>  \* "randomvm1001"
H_durum1001 == <<"d", "u", "r", "u", "m", "1", "0", "0", "1">>  \* "durum1001"
VL_row == <<"p", "r", "i", "v", "a", "t", "e", "1", "-", "a", "-", "e", "q", "i", "a", "d">>  \* "private1-a-eqiad"
VL_rack == <<"p", "r", "i", "v", "a", "t", "e", "1", "-", "e", "1", "-", "e", "q", "i", "a", "d">>  \* "private1-e1-eqiad"
VL_short == <<"p", "r", "i", "v", "a", "t", "e", "1">>  \* "private1"

\* The port a server is connected with: None, a port that is not connected,
\* and a port connected to a switch port (of a virtual chassis or not, with
\* or without untagged VLAN).
switchport(vc, vlan) == [device |-> [virtual_chassis |-> vc], untagged_vlan |-> vlan]
connected_to(sp) == <<[connected_endpoints |-> <<sp>>]>>
NotConnected == <<[connected_endpoints |-> <<>>]>>
OnVC == connected_to(switchport(<<[domain |-> D_domain]>>, <<[name |-> VL_rack]>>))
OnRow == connected_to(switchport(<<>>, <<[name |-> VL_row]>>))
OnRack == connected_to(switchport(<<>>, <<[name |-> VL_rack]>>))
NoVlan == connected_to(switchport(<<>>, <<>>))

\* A device of role server: its primary address is on `port`, that is its
\* uplink too.
server(id, name, rack, cluster, bgp, port) ==
    [id |-> id, name |-> name, status |-> [value |-> "active"],
     role |-> [slug |-> "server"], site |-> [slug |-> "eqiad"],
     custom_fields |-> [bgp |-> bgp], rack |-> rack, cluster |-> cluster,
     virtual_chassis |-> <<>>,
     primary_ip4 |-> <<ipv4(10, 0, 1, id, 24)>>, primary_ip6 |-> <<ipv6(id, 120)>>,
     primary_ip |-> <<[assigned_object |-> port]>>, uplink |-> port]

\* A virtual machine of cluster 1.
virtual_machine(id, name, bgp) ==
    [id |-> id, name |-> name, status |-> [value |-> "active"],
     role |-> [slug |-> "server"], site |-> [slug |-> "eqiad"],
     custom_fields |-> [bgp |-> bgp], cluster |-> <<[id |-> 1]>>,
     primary_ip4 |-> <<ipv4(10, 0, 2, id, 24)>>, primary_ip6 |-> <<>>]

VirtualMachines ==
    <<virtual_machine(21, H_doh1001, TRUE), virtual_machine(22, H_randomvm1001, TRUE),
      virtual_machine(23, H_durum1001, FALSE)>>

\* The device of the inventories below: its rack is rack 1.
bgp_inventory(role, device_type, ints, devices) ==
    [inventory(role, ints, <<>>, <<>>, <<>>) EXCEPT !.device_type = [slug |-> device_type]]
    @@ [rack |-> 1, site |-> [slug |-> "eqiad"], devices |-> devices,
        virtual_machines |-> VirtualMachines]

\* An interface of the switch, connected to a server.
server_port(id, name, vlan, far) ==
    [Update(nb_int(id, name),
            link(L_C123, "dcim.interface", <<[name |-> I_ge5, device |-> far]>>,
                 "dcim.interface", <<[name |-> I_ge5, device |-> far]>>))
     EXCEPT !.mode = <<[value |-> "access"]>>, !.untagged_vlan = vlan]

ServerNames == {H_mw1001, H_randomhost42, H_randomhost1001}

\* An L3 switch: xe-0/1 leads to a server or to the Ganeti host ganeti1001 of
\* cluster 1, in rack 1 or 2, over any VLAN or none; xe-0/2, if listed, leads
\* to lvs1002 in rack 1; ganeti1002 is the other host of cluster 1.
SwitchInventories ==
    {bgp_inventory("asw", "qfx5120-48y-afi",
                   <<server_port(1, N_xe1, vlan, far)>> \o second,
                   <<IF far.name = H_ganeti1001 THEN far
                     ELSE server(11, H_ganeti1001, 1, <<[id |-> 1]>>, FALSE, OnRack),
                     server(12, H_ganeti1002, rack2, <<[id |-> 1]>>, FALSE, OnRack)>>) :
        far \in {server(10, n, r, <<>>, TRUE, OnRack) : n \in ServerNames, r \in {1, 2}}
                \cup {server(11, H_ganeti1001, r, <<[id |-> 1]>>, TRUE, OnRack) : r \in {1, 2}},
        vlan \in {<<>>} \cup {<<[name |-> v, vid |-> 1]>> : v \in {VL_row, VL_rack, VL_short}},
        second \in {<<>>,
                    <<server_port(2, N_xe2, <<[name |-> VL_rack, vid |-> 1]>>,
                                  server(13, H_lvs1002, 1, <<>>, TRUE, OnRack))>>},
        rack2 \in {1, 2}}

\* A core router: the site has a server with any name and port, lvs1002 on a
\* virtual chassis, and the Ganeti host of the VMs.
RouterInventories ==
    {bgp_inventory("cr", "mx480", <<>>,
                   <<[server(10, n, 1, <<>>, TRUE, port) EXCEPT !.primary_ip =
                         IF port = <<>> THEN <<>> ELSE @],
                     server(13, H_lvs1002, 1, <<>>, TRUE, OnVC),
                     server(11, H_ganeti1001, 1, <<[id |-> 1]>>, FALSE, uplink)>>) :
        n \in ServerNames,
        port \in {<<>>, NotConnected, OnVC, OnRow, OnRack, NoVlan},
        uplink \in {<<>>, OnVC, OnRack, NoVlan}}

BgpInventories == SwitchInventories \cup RouterInventories

\* The servers of the inventory: devices, virtual machines and far ends.
Servers(snap) ==
    {snap.devices[i] : i \in 1..Len(snap.devices)}
    \cup {snap.virtual_machines[i] : i \in 1..Len(snap.virtual_machines)}
    \cup {snap.interfaces[i].connected_endpoints[1].device : i \in 1..Len(snap.interfaces)}

GetBgpServers ==
    LET r == get_bgp_servers(Self, snapshot)
    IN /\ SetSelf(r.self)
       /\ ret' = [op |-> "_get_bgp_servers", raised |-> r.raised, value |-> r.value,
                  log |-> r.log]
       /\ UNCHANGED <<snapshot, instance, trees>>

FetchBgpServersL2(site) ==
    LET r == fetch_bgp_servers_l2(Self, snapshot, site)
    IN /\ SetSelf(r.self)
       /\ ret' = [op |-> "fetch_bgp_servers_l2", raised |-> r.raised, value |-> r.value]
       /\ UNCHANGED <<snapshot, instance, trees>>

NormalizeBgpNeighbor(server_) ==
    LET r == normalize_bgp_neighbor(server_)
    IN /\ SetSelf(Self)
       /\ ret' = [op |-> "normalize_bgp_neighbor", server |-> server_,
                  raised |-> r.raised, value |-> r.value, log |-> r.log]
       /\ UNCHANGED <<snapshot, instance, trees>>

InitBgp ==
    /\ InitInstance
    /\ snapshot \in BgpInventories
    /\ ret = [op |-> "__init__", raised |-> ""]

NextBgp ==
    \/ GetBgpServers
    \/ \E site \in {"", snapshot.site.slug} : FetchBgpServersL2(site)
    \/ \E s \in Servers(snapshot) : NormalizeBgpNeighbor(s)

SpecBgp == InitBgp /\ [][NextBgp]_vars

-----------------------------------------------------------------------------
\* Properties of the BGP servers (SpecBgp).

\* The hostname without its numeric suffix.
RECURSIVE DigitsStripped(_)
DigitsStripped(name) ==
    IF name # <<>> /\ name[Len(name)] \in {"0", "1", "2", "3", "4", "5", "6", "7", "8", "9"}
    THEN DigitsStripped(SubSeq(name, 1, Len(name) - 1))
    ELSE name

UnknownPrefix(name) == DigitsStripped(name) \notin DOMAIN HOSTNAMES_TO_GROUPS

\* The pairs <<group, name>> of a result.
Listed(value) == UNION {{<<g, n>> : n \in DOMAIN value[g]} : g \in DOMAIN value}

ErrorLogged(log, name) ==
    \E l \in 1..Len(log) : log[l].level = "error" /\ log[l].name = name

BgpReturned == ret.op = "_get_bgp_servers" /\ ret.raised = ""

L3Switch ==
    snapshot.role.slug \in {"asw", "cloudsw"}
    /\ snapshot.device_type.slug \in {"qfx5120-48y-afi", "qfx5120-48y-afi2"}

\* VLAN names of the legacy row-wide convention.
LegacyVlans == {VL_row, VL_short}

\* Interface nb has an untagged VLAN that is not legacy, and its far end is a
\* device in the rack of the switch.
RackPort(nb) ==
    /\ nb.connected_endpoints_type = "dcim.interface"
    /\ nb.untagged_vlan # <<>>
    /\ nb.untagged_vlan[1].name \notin LegacyVlans
    /\ nb.connected_endpoints[1].device.rack = snapshot.rack

RackPorts == {i \in 1..Len(snapshot.interfaces) : RackPort(snapshot.interfaces[i])}

FarEnd(i) == snapshot.interfaces[i].connected_endpoints[1].device

\* A server some port of the device is not connected for.
SomeNotConnected ==
    \E i \in 1..Len(snapshot.devices) :
        \/ snapshot.devices[i].uplink = NotConnected
        \/ /\ snapshot.devices[i].primary_ip # <<>>
           /\ snapshot.devices[i].primary_ip[1].assigned_object = NotConnected

C19_OnlyRackPeers ==
    (BgpReturned /\ L3Switch) =>
        \A p \in Listed(ret.value) :
            \/ \E i \in RackPorts : FarEnd(i).name = p[2]
            \/ \E v \in 1..Len(snapshot.virtual_machines) :
                  LET vm == snapshot.virtual_machines[v]
                  IN /\ vm.name = p[2]
                     /\ vm.custom_fields.bgp
                     /\ \E i \in RackPorts : FarEnd(i).cluster = vm.cluster
                     /\ \A d, e \in 1..Len(snapshot.devices) :
                           (snapshot.devices[d].cluster = vm.cluster
                            /\ snapshot.devices[e].cluster = vm.cluster)
                           => snapshot.devices[d].rack = snapshot.devices[e].rack

\* The result of a switch that lists the Ganeti host and the flagged virtual
\* machine of its cluster.
C19_Witness ==
    /\ BgpReturned
    /\ L3Switch
    /\ Listed(ret.value) = {<<"ganeti", H_ganeti1001>>, <<"anycast", H_doh1001>>}

\* The result of a switch whose only port to mw1001 is on a legacy VLAN.
C19_WitnessLegacy ==
    /\ BgpReturned
    /\ L3Switch
    /\ Len(snapshot.interfaces) = 1
    /\ snapshot.interfaces[1].untagged_vlan = <<[name |-> VL_row, vid |-> 1]>>
    /\ FarEnd(1).name = H_mw1001
    /\ FarEnd(1).rack = snapshot.rack
    /\ Listed(ret.value) = {}
====
